---------------------------- MODULE Spec2Model ----------------------------
(***************************************************************************)
(* KnowledgeVault: on-device retrieval pipeline.                           *)
(*                                                                         *)
(* Strings are sequences of one-character strings, so that the string      *)
(* operations of the source (toLowerCase, replace, trim, split, substring, *)
(* includes) are computed and not assumed.  Scores are exact fixed-point   *)
(* integers (see ScoreDen).                                                *)
(***************************************************************************)
EXTENDS Integers, Sequences, FiniteSets, TLC

VARIABLES
    tokText,        \* tokenizer: the input text of tokenize()
    tokOut,         \* tokenizer: <<TokenizerOutput>> once tokenize() has returned, else <<>>
    rankIn,         \* ranker: the caller's list of RetrievalResult, passed to the ranking
                    \*         function
    rankOut,        \* ranker: <<the call and the list it returned>>, else <<>>
    platform,       \* embedder: Platform.OS
    session,        \* embedder: the cached InferenceSession (the id of the load that
                    \*           created it), or NULL
    sessionLoading, \* embedder: the in-flight load promise (the id of its load), or NULL
    loads,          \* embedder: per load attempt, where its async body stands
    calls,          \* per caller, the embedText / preloadModel / retrieve* call in progress
    store,          \* storage: the notes table, most recent first
    pureIn,         \* vector math, summarizer: the arguments of the function called
    pureOut,        \* vector math, summarizer: <<the call and its result>>, else <<>>
    queryText,      \* search screen: the state `query`, the text of the search field
    debounceTimer,  \* search screen: <<the query the pending timer will search for>>,
                    \*                else <<>>
    searchResults   \* search screen: the state `searchResults`, a list of notes

tokVars == <<tokText, tokOut>>

rankVars == <<rankIn, rankOut>>

pureVars == <<pureIn, pureOut>>

searchVars == <<queryText, debounceTimer, searchResults>>

(***************************************************************************)
(* Strings                                                                 *)
(***************************************************************************)
LowerLetters ==
    {"a", "b", "c", "d", "e", "h", "l", "n", "o", "p", "r", "s", "t", "u", "w", "z"}

UpperLetters == {"A", "B", "C", "D", "H", "S"}

Digits == {"1"}

\* \s of the regular expressions
IsSpace(c) == c \in {" ", "\t", "\n"}

\* \w of the regular expressions: [A-Za-z0-9_]
IsWordChar(c) == c \in LowerLetters \cup UpperLetters \cup Digits \cup {"_"}

LowerOf(c) ==
    CASE c = "A" -> "a"
      [] c = "B" -> "b"
      [] c = "C" -> "c"
      [] c = "D" -> "d"
      [] c = "H" -> "h"
      [] c = "S" -> "s"
      [] OTHER -> c

\* String.prototype.toLowerCase
toLowerCase(s) == [i \in 1..Len(s) |-> LowerOf(s[i])]

\* the indices 1..Len(s) in order
Indices(s) == [i \in 1..Len(s) |-> i]

\* s.replace(/\s+/g, ' '): every maximal run of whitespace becomes one space
\* (the first character of a run stays, as a space; the rest of it goes)
collapseWhitespace(s) ==
    LET RunTail(i) == IsSpace(s[i]) /\ i > 1 /\ IsSpace(s[i - 1])
        kept == SelectSeq(Indices(s), LAMBDA i : ~RunTail(i))
    IN  [k \in 1..Len(kept) |-> IF IsSpace(s[kept[k]]) THEN " " ELSE s[kept[k]]]

\* String.prototype.trim
trim(s) ==
    LET nonSpace == {i \in 1..Len(s) : ~IsSpace(s[i])}
    IN  IF nonSpace = {} THEN <<>>
        ELSE LET lo == CHOOSE i \in nonSpace : \A j \in nonSpace : i <= j
                 hi == CHOOSE i \in nonSpace : \A j \in nonSpace : i >= j
             IN  SubSeq(s, lo, hi)

\* s.split(/\s+/): the pieces between maximal whitespace runs; a leading or
\* trailing run leaves an empty piece, and "" splits into [""]
splitWhitespace(s) ==
    LET RunStart(i) == IsSpace(s[i]) /\ (i = 1 \/ ~IsSpace(s[i - 1]))
        RunEnd(i) == IsSpace(s[i]) /\ (i = Len(s) \/ ~IsSpace(s[i + 1]))
        starts == SelectSeq(Indices(s), RunStart)
        ends == SelectSeq(Indices(s), RunEnd)
        m == Len(starts)
    IN  [k \in 1..(m + 1) |->
            SubSeq(s, IF k = 1 THEN 1 ELSE ends[k - 1] + 1,
                      IF k = m + 1 THEN Len(s) ELSE starts[k] - 1)]

NonEmpty(w) == Len(w) > 0

\* n copies of s
Repeat(s, n) == [i \in 1..(n * Len(s)) |-> s[((i - 1) % Len(s)) + 1]]

(***************************************************************************)
(* Tokenizer (src/src/embedding/tokenizer.ts)                              *)
(***************************************************************************)
CLS_TOKEN == <<"[", "C", "L", "S", "]">>

SEP_TOKEN == <<"[", "S", "E", "P", "]">>

UNK_TOKEN == <<"[", "U", "N", "K", "]">>

PAD_TOKEN == <<"[", "P", "A", "D", "]">>

MAX_LENGTH == 128

\* vocab.json: token -> id; the id of a token is its position here minus one.
\* The special tokens and hello/world are the vocabulary of the documented
\* scenario; the remaining entries give multi-piece and continuation splits.
vocabTokens ==
    << CLS_TOKEN, SEP_TOKEN, UNK_TOKEN, PAD_TOKEN,
       <<"h", "e", "l", "l", "o">>,
       <<"w", "o", "r", "l", "d">>,
       <<"a">>,
       <<"a", "b">>,
       <<"#", "#", "b">>,
       <<"#", "#", "c">>,
       <<"#", "#", "b", "c">>,
       <<"#", "#", ".">> >>

\* the keys of vocab.json
IsVocabEntry(tok) == \E i \in 1..Len(vocabTokens) : vocabTokens[i] = tok

\* vocab is a plain object: besides its own keys it inherits the properties
\* of Object.prototype.  cleanText lower-cases the text and keeps letters,
\* digits and "_", so these are the inherited names a word can spell.
ObjectPrototypeNames ==
    { <<"c", "o", "n", "s", "t", "r", "u", "c", "t", "o", "r">>,
      <<"_", "_", "p", "r", "o", "t", "o", "_", "_">> }

\* substr in vocab: the in operator is true of own and of inherited properties
InVocab(tok) == IsVocabEntry(tok) \/ tok \in ObjectPrototypeNames

\* vocab[token] for a key of vocab.json
VocabId(tok) == (CHOOSE i \in 1..Len(vocabTokens) : vocabTokens[i] = tok) - 1

\* vocab[token] for an inherited name: a function or an object, not undefined
\* and not a number; it stands here as a value that is no id
InheritedValue == 0 - 1

cleanText(text) ==
    LET lowered == toLowerCase(text)
        squeezed == trim(collapseWhitespace(lowered))
        Allowed(c) == IsWordChar(c) \/ IsSpace(c) \/ c \in {".", ",", "!", "?", "'", "-"}
    IN  [i \in 1..Len(squeezed) |-> IF Allowed(squeezed[i]) THEN squeezed[i] ELSE " "]

\* word.substring(start, end) with 0-based start and exclusive end
substring(word, start, end) == SubSeq(word, start + 1, end)

\* the longest name the in operator accepts: no longer substring can match
MaxTokenLen ==
    LET lens == {Len(vocabTokens[i]) : i \in 1..Len(vocabTokens)}
                    \cup {Len(name) : name \in ObjectPrototypeNames}
    IN  CHOOSE n \in lens : \A k \in lens : k <= n

\* the inner loop of wordPieceTokenize: the largest end > start whose
\* (marked) substring is in the vocabulary, or start when there is none.
\* The loop steps end down from word.length; ends further than MaxTokenLen
\* from start cannot match and are skipped here.
LongestMatch(word, start) ==
    LET Marked(end) ==
            IF start > 0 THEN <<"#", "#">> \o substring(word, start, end)
            ELSE substring(word, start, end)
        far == IF Len(word) < start + MaxTokenLen THEN Len(word) ELSE start + MaxTokenLen
        hits == {end \in (start + 1)..far : InVocab(Marked(end))}
    IN  IF hits = {} THEN start
        ELSE CHOOSE end \in hits : \A e \in hits : e <= end

\* one pass of the outer loop of wordPieceTokenize: the token pushed and the
\* new start
WordPieceStep(word, start, tokens) ==
    LET end == LongestMatch(word, start)
    IN  IF end = start
        THEN [start |-> start + 1, tokens |-> Append(tokens, UNK_TOKEN)]
        ELSE LET raw == substring(word, start, end)
                 found == IF start > 0 THEN <<"#", "#">> \o raw ELSE raw
             IN  [start |-> end, tokens |-> Append(tokens, found)]

RECURSIVE WordPieceFrom(_, _, _)
WordPieceFrom(word, start, tokens) ==
    IF ~(start < Len(word)) THEN tokens
    ELSE LET next == WordPieceStep(word, start, tokens)
         IN  WordPieceFrom(word, next.start, next.tokens)

wordPieceTokenize(word) == WordPieceFrom(word, 0, <<>>)

\* the for-loop over the words: push every piece of the word, then stop once
\* the length has reached MAX_LENGTH - 1
RECURSIVE AccumulateWords(_, _, _)
AccumulateWords(words, i, tokens) ==
    IF i > Len(words) THEN tokens
    ELSE LET pushed == tokens \o wordPieceTokenize(words[i])
         IN  IF Len(pushed) >= MAX_LENGTH - 1 THEN pushed
             ELSE AccumulateWords(words, i + 1, pushed)

\* tokens.map(token => { id = vocab[token]; id !== undefined ? id : vocab[UNK_TOKEN] })
TokenId(tok) ==
    IF IsVocabEntry(tok) THEN VocabId(tok)
    ELSE IF tok \in ObjectPrototypeNames THEN InheritedValue
    ELSE VocabId(UNK_TOKEN)

\* the ids padded with `with` and the mask padded with 0 up to MAX_LENGTH
PadWith(ids, mask, with) ==
    LET n == Len(ids)
        total == IF n < MAX_LENGTH THEN MAX_LENGTH ELSE n
    IN  [input_ids |-> [i \in 1..total |-> IF i <= n THEN ids[i] ELSE with],
         attention_mask |-> [i \in 1..total |-> IF i <= n THEN mask[i] ELSE 0]]

PadToMaxLengthUnk(ids, mask) == PadWith(ids, mask, VocabId(UNK_TOKEN))

\* while (input_ids.length < MAX_LENGTH) { input_ids.push(padId); attention_mask.push(0) }
PadToMaxLength(ids, mask) == PadWith(ids, mask, VocabId(PAD_TOKEN))

\* a tokenizer that cuts the token sequence at MAX_LENGTH after [SEP] is pushed
tokenizeTokensHardCut(text) ==
    LET words == SelectSeq(splitWhitespace(cleanText(text)), NonEmpty)
        all == Append(AccumulateWords(words, 1, <<CLS_TOKEN>>), SEP_TOKEN)
    IN  IF Len(all) > MAX_LENGTH THEN SubSeq(all, 1, MAX_LENGTH) ELSE all

\* the token strings of tokenize(), before the conversion to ids
tokenizeTokens(text) ==
    LET words == SelectSeq(splitWhitespace(cleanText(text)), NonEmpty)
    IN  Append(AccumulateWords(words, 1, <<CLS_TOKEN>>), SEP_TOKEN)

tokenize(text) ==
    LET tokens == tokenizeTokens(text)
        ids == [i \in 1..Len(tokens) |-> TokenId(tokens[i])]
        mask == [i \in 1..Len(ids) |-> 1]
    IN  PadToMaxLength(ids, mask)

(***************************************************************************)
(* Scores.  A score is an integer number of 1/ScoreDen: the cosines of the *)
(* model's vectors, the keyword overlaps and the weights (tenths) all have *)
(* exact values, so equal scores are equal and ties are ties.              *)
(***************************************************************************)
ScoreDen == 100 * 60

\* a literal such as 0.3, given in tenths
Tenths(t) == (t * ScoreDen) \div 10

\* exact fractions n/d with d > 0, for the MMR score
Frac(n, d) == [n |-> n, d |-> d]

FracLess(a, b) == a.n * b.d < b.n * a.d

FracMin(a, b) == IF FracLess(b, a) THEN b ELSE a

(***************************************************************************)
(* Ranker (src/src/rag/rank.ts)                                            *)
(***************************************************************************)
\* Array.prototype.slice(begin, end), negative indices counting from the end
slice(arr, begin, end) ==
    LET len == Len(arr)
        Clamp(x) == IF x < 0 THEN (IF len + x < 0 THEN 0 ELSE len + x)
                    ELSE (IF x > len THEN len ELSE x)
        from == Clamp(begin)
        to == Clamp(end)
    IN  IF to <= from THEN <<>> ELSE SubSeq(arr, from + 1, to)

\* [...results].sort((a, b) => b.similarity - a.similarity) on a copy: the sort
\* is stable, so an element goes after every element of greater similarity and
\* after the earlier elements of equal similarity
SortDescending(results, stable) ==
    LET n == Len(results)
        Before(j, i) == \/ results[j].similarity > results[i].similarity
                        \/ /\ results[j].similarity = results[i].similarity
                           /\ IF stable THEN j < i ELSE j > i
        Pos(i) == Cardinality({j \in 1..n : Before(j, i)}) + 1
    IN  [p \in 1..n |-> results[CHOOSE i \in 1..n : Pos(i) = p]]

\* the same sort, were it to put the later of two equal elements first
sortBySimilarityUnstable(results) == SortDescending(results, FALSE)

sortBySimilarity(results) == SortDescending(results, TRUE)

\* topK without its guard on k
topKNoGuard(results, k) == slice(sortBySimilarity(results), 0, k)

topK(results, k) ==
    IF k <= 0 THEN <<>>
    ELSE slice(sortBySimilarity(results), 0, k)

\* topKWithThreshold, were it to slice the sorted list and not the filtered one
topKWithThresholdUnfiltered(results, k, minSimilarity) ==
    LET sorted == sortBySimilarity(results)
        filtered == SelectSeq(sorted, LAMBDA r : r.similarity >= minSimilarity)
    IN  slice(sorted, 0, k)

topKWithThreshold(results, k, minSimilarity) ==
    LET sorted == sortBySimilarity(results)
        filtered == SelectSeq(sorted, LAMBDA r : r.similarity >= minSimilarity)
    IN  slice(filtered, 0, k)

\* new Set(text.toLowerCase().split(/\s+/))
WordSet(text) ==
    LET words == splitWhitespace(toLowerCase(text))
    IN  {words[i] : i \in 1..Len(words)}

\* intersection / union of the two word sets, 0 when the union is empty
textOverlap(textA, textB) ==
    LET wordsA == WordSet(textA)
        wordsB == WordSet(textB)
        intersection == Cardinality(wordsA \cap wordsB)
        union == Cardinality(wordsA) + Cardinality(wordsB) - intersection
    IN  IF union > 0 THEN Frac(intersection, union) ELSE Frac(0, 1)

\* diversityScore, were it to look at the result selected last only
diversityScoreLastOnly(candidate, selected) ==
    IF Len(selected) = 0 THEN Frac(1, 1)
    ELSE LET m == FracMin(Frac(1, 1),
                          textOverlap(candidate.note.text,
                                      selected[Len(selected)].note.text))
         IN  Frac(m.d - m.n, m.d)

\* 1 - min(1, the overlaps with the selected results); 1 when none is selected
diversityScore(candidate, selected) ==
    IF Len(selected) = 0 THEN Frac(1, 1)
    ELSE LET RECURSIVE MinSim(_, _)
             MinSim(i, minSim) ==
                 IF i > Len(selected) THEN minSim
                 ELSE MinSim(i + 1,
                             FracMin(minSim,
                                     textOverlap(candidate.note.text, selected[i].note.text)))
             m == MinSim(1, Frac(1, 1))
         IN  Frac(m.d - m.n, m.d)

\* lambda * relevance + (1 - lambda) * diversity, lambda given in tenths; the
\* result is a fraction of 1/(10 * ScoreDen), the same unit for every candidate
mmrScore(candidate, selected, lambda) ==
    LET diversity == diversityScore(candidate, selected)
    IN  Frac(lambda * candidate.similarity * diversity.d
                 + (10 - lambda) * diversity.n * ScoreDen,
             diversity.d)

\* the for-loop of mmrRank, were it to compare with >= (the last of the
\* best candidates wins)
RECURSIVE bestIndexLast(_, _, _, _, _)
bestIndexLast(remaining, selected, lambda, i, best) ==
    IF i > Len(remaining) THEN best
    ELSE IF best = 0
            \/ ~FracLess(mmrScore(remaining[i], selected, lambda),
                         mmrScore(remaining[best], selected, lambda))
         THEN bestIndexLast(remaining, selected, lambda, i + 1, i)
         ELSE bestIndexLast(remaining, selected, lambda, i + 1, best)

\* the for-loop of mmrRank: the index of the first candidate whose score is
\* greater than every earlier one's (bestScore starts at -Infinity)
RECURSIVE bestIndex(_, _, _, _, _)
bestIndex(remaining, selected, lambda, i, best) ==
    IF i > Len(remaining) THEN best
    ELSE IF best = 0
            \/ FracLess(mmrScore(remaining[best], selected, lambda),
                        mmrScore(remaining[i], selected, lambda))
         THEN bestIndex(remaining, selected, lambda, i + 1, i)
         ELSE bestIndex(remaining, selected, lambda, i + 1, best)

\* remaining.splice(idx, 1)
splice1(arr, idx) == SubSeq(arr, 1, idx - 1) \o SubSeq(arr, idx + 1, Len(arr))

\* selected.push(remaining[bestIdx]); remaining.splice(bestIdx, 1)
moveToSelected(selected, remaining, bestIdx) ==
    [selected |-> Append(selected, remaining[bestIdx]),
     remaining |-> splice1(remaining, bestIdx)]

\* one pass of the while loop of mmrRank
mmrStep(selected, remaining, lambda) ==
    moveToSelected(selected, remaining, bestIndex(remaining, selected, lambda, 1, 0))

RECURSIVE mmrLoop(_, _, _, _)
mmrLoop(selected, remaining, k, lambda) ==
    IF ~(Len(selected) < k /\ Len(remaining) > 0) THEN selected
    ELSE LET next == mmrStep(selected, remaining, lambda)
         IN  mmrLoop(next.selected, next.remaining, k, lambda)

mmrRank(results, k, lambda) ==
    IF Len(results) = 0 \/ k <= 0 THEN <<>>
    ELSE mmrLoop(<<>>, sortBySimilarity(results), k, lambda)

(***************************************************************************)
(* The arrays of a ranking call.  A heap is the sequence of the arrays the *)
(* call can reach, heap[1] being the caller's list; sort, push and splice  *)
(* write to the array they are called on, while the spread syntax, filter  *)
(* and slice build a new one.  The operators below follow those writes;    *)
(* the values returned are those of the operators above.                   *)
(***************************************************************************)
\* [...arr], were it the array itself
spreadShared(heap, r) == [heap |-> heap, ref |-> r]

\* [...arr]: a new array of the same elements
spread(heap, r) == [heap |-> Append(heap, heap[r]), ref |-> Len(heap) + 1]

\* arr.sort((a, b) => b.similarity - a.similarity): sorts arr itself
sortInPlace(heap, r) == [heap EXCEPT ![r] = sortBySimilarity(heap[r])]

\* const sorted = [...results].sort(...): the copy is sorted, and returned
sortCopy(copy) == [heap |-> sortInPlace(copy.heap, copy.ref), ref |-> copy.ref]

sortBySimilarityHeap(heap, r) == sortCopy(spread(heap, r))

\* topK: sorted.slice(0, k) writes nothing
topKHeap(heap, r, k) ==
    IF k <= 0 THEN heap ELSE sortBySimilarityHeap(heap, r).heap

\* topKWithThreshold: filter and slice write nothing
topKWithThresholdHeap(heap, r, k, minSimilarity) == sortBySimilarityHeap(heap, r).heap

\* remaining.splice(bestIndex, 1), for every element selected
spliceSelected(remaining, selected) ==
    LET Left(x) == \A i \in 1..Len(selected) : selected[i] # x
    IN  [remaining.heap EXCEPT ![remaining.ref] = SelectSeq(@, Left)]

\* const remaining = [...sorted]
spreadSorted(sorted) == spread(sorted.heap, sorted.ref)

\* mmrRank: remaining = [...sorted] loses, by splice, the elements selected
mmrRankHeap(heap, r, k, lambda) ==
    IF Len(heap[r]) = 0 \/ k <= 0 THEN heap
    ELSE spliceSelected(spreadSorted(sortBySimilarityHeap(heap, r)),
                        mmrRank(heap[r], k, lambda))

(***************************************************************************)
(* Vector math (src/unnamed/part_002, normalize in ViewNote.tsx).          *)
(* Vectors have integer components and a norm that is an integer (0 or a   *)
(* multiple of VecUnit, the model's length of a unit vector), so that the  *)
(* square root and the divisions are exact.                                *)
(***************************************************************************)
RECURSIVE SumSeq(_)
SumSeq(s) == IF s = <<>> THEN 0 ELSE Head(s) + SumSeq(Tail(s))

\* Math.sqrt, on the perfect squares
Sqrt(x) == CHOOSE r \in 0..x : r * r = x

\* a call that returned `value`, and a call that threw
Returned(value) == [ok |-> TRUE, value |-> value]

Threw == [ok |-> FALSE, value |-> 0]

\* throws 'Vectors must have the same length' when the lengths differ
dotProduct(vecA, vecB) ==
    IF Len(vecA) # Len(vecB) THEN Threw
    ELSE Returned(SumSeq([i \in 1..Len(vecA) |-> vecA[i] * vecB[i]]))

magnitude(vec) == Sqrt(SumSeq([i \in 1..Len(vec) |-> vec[i] * vec[i]]))

\* cosineSimilarity, were a zero vector an error
cosineSimilarityZeroThrows(vecA, vecB) ==
    IF Len(vecA) # Len(vecB) THEN Threw
    ELSE LET dot == dotProduct(vecA, vecB).value
             magA == magnitude(vecA)
             magB == magnitude(vecB)
         IN  IF magA = 0 \/ magB = 0 THEN Threw
             ELSE Returned((dot * ScoreDen) \div (magA * magB))

\* cosineSimilarity, were it to look at the norms before the lengths
cosineSimilarityZeroFirst(vecA, vecB) ==
    IF magnitude(vecA) = 0 \/ magnitude(vecB) = 0 THEN Returned(0)
    ELSE IF Len(vecA) # Len(vecB) THEN Threw
    ELSE Returned((dotProduct(vecA, vecB).value * ScoreDen)
                      \div (magnitude(vecA) * magnitude(vecB)))

\* the cosine in units of 1/ScoreDen; 0 for a zero vector
cosineSimilarity(vecA, vecB) ==
    IF Len(vecA) # Len(vecB) THEN Threw
    ELSE LET dot == dotProduct(vecA, vecB).value
             magA == magnitude(vecA)
             magB == magnitude(vecB)
         IN  IF magA = 0 \/ magB = 0 THEN Returned(0)
             ELSE Returned((dot * ScoreDen) \div (magA * magB))

l2Norm(vec) == Sqrt(SumSeq([i \in 1..Len(vec) |-> vec[i] * vec[i]]))

\* the length that stands for 1: the norm of the model's unit vectors
VecUnit == l2Norm(<<3, 4>>)

\* vec.map(v => v / norm), a unit vector having length VecUnit here
l2Normalize(vec) ==
    LET norm == l2Norm(vec)
    IN  IF norm = 0 THEN [i \in 1..Len(vec) |-> 0]
        ELSE [i \in 1..Len(vec) |-> (vec[i] * VecUnit) \div norm]

(***************************************************************************)
(* Retriever (src/unnamed/part_003)                                        *)
(***************************************************************************)
\* new Set(text.toLowerCase().replace(/[^\w\s]/g, ' ').split(/\s+/)
\*             .filter(word => word.length > 2))
extractKeywords(text) ==
    LET lowered == toLowerCase(text)
        stripped == [i \in 1..Len(lowered) |->
                        IF IsWordChar(lowered[i]) \/ IsSpace(lowered[i])
                        THEN lowered[i] ELSE " "]
        words == splitWhitespace(stripped)
    IN  {words[i] : i \in {j \in 1..Len(words) : Len(words[j]) > 2}}

\* matchCount / queryKeywords.size in units of 1/ScoreDen, 0 without keywords
keywordOverlapScore(queryKeywords, noteText) ==
    LET noteKeywords == extractKeywords(noteText)
        matchCount == Cardinality(queryKeywords \cap noteKeywords)
        size == Cardinality(queryKeywords)
    IN  IF size > 0 THEN (matchCount * ScoreDen) \div size ELSE 0

\* String.prototype.includes
includes(text, part) ==
    \E i \in 0..(Len(text) - Len(part)) : SubSeq(text, i + 1, i + Len(part)) = part

\* hasKeywordMatch, were a query without keywords to match every note
hasKeywordMatchOrNone(queryKeywords, noteText) ==
    LET noteLower == toLowerCase(noteText)
    IN  \A keyword \in queryKeywords : includes(noteLower, keyword)

hasKeywordMatch(queryKeywords, noteText) ==
    LET noteLower == toLowerCase(noteText)
    IN  \E keyword \in queryKeywords : includes(noteLower, keyword)

\* results.sort((a, b) => b.similarity - a.similarity), in place and stable
sortResults(results) == sortBySimilarity(results)

\* notes.map(note => ({note, similarity})), scores[i] being the score computed
\* for notes[i]: throws when the computation of a score does
ScoreNotes(notes, scores) ==
    IF \E i \in 1..Len(notes) : ~scores[i].ok THEN Threw
    ELSE Returned([i \in 1..Len(notes) |->
                      [note |-> notes[i], similarity |-> scores[i].value]])

\* retrieveNotes, were the scored notes returned as mapped
retrieveNotesFromUnsorted(queryEmbedding, notes) ==
    IF Len(notes) = 0 THEN Returned(<<>>)
    ELSE ScoreNotes(notes,
                    [i \in 1..Len(notes) |->
                        cosineSimilarity(queryEmbedding, notes[i].embedding)])

\* retrieveNotes from the resolved query embedding and the notes getAllNotes returned
retrieveNotesFrom(queryEmbedding, notes) ==
    IF Len(notes) = 0 THEN Returned(<<>>)
    ELSE LET scored == ScoreNotes(notes,
                           [i \in 1..Len(notes) |->
                               cosineSimilarity(queryEmbedding, notes[i].embedding)])
         IN  IF scored.ok THEN Returned(sortResults(scored.value)) ELSE Threw

\* the hybrid score, were the weights swapped
hybridScoreSwapped(semanticWeight, semanticSim, keywordScore) ==
    LET keywordWeight == 10 - semanticWeight
    IN  (keywordWeight * semanticSim + semanticWeight * keywordScore) \div 10

\* the hybrid score, semanticWeight given in tenths
hybridScore(semanticWeight, semanticSim, keywordScore) ==
    LET keywordWeight == 10 - semanticWeight
    IN  (semanticWeight * semanticSim + keywordWeight * keywordScore) \div 10

\* retrieveNotesHybrid, were an empty table an error
retrieveNotesHybridFromEmptyThrows(query, semanticWeight, queryEmbedding, notes) ==
    LET queryKeywords == extractKeywords(query)
        Score(note) ==
            LET semanticSim == cosineSimilarity(queryEmbedding, note.embedding)
                keywordScore == keywordOverlapScore(queryKeywords, note.text)
            IN  IF semanticSim.ok
                THEN Returned(hybridScore(semanticWeight, semanticSim.value, keywordScore))
                ELSE Threw
    IN  IF Len(notes) = 0 THEN Threw
        ELSE LET scored == ScoreNotes(notes, [i \in 1..Len(notes) |-> Score(notes[i])])
             IN  IF scored.ok THEN Returned(sortResults(scored.value)) ELSE Threw

\* retrieveNotesHybrid from the query, the resolved query embedding and the notes
retrieveNotesHybridFrom(query, semanticWeight, queryEmbedding, notes) ==
    LET queryKeywords == extractKeywords(query)
        Score(note) ==
            LET semanticSim == cosineSimilarity(queryEmbedding, note.embedding)
                keywordScore == keywordOverlapScore(queryKeywords, note.text)
            IN  IF semanticSim.ok
                THEN Returned(hybridScore(semanticWeight, semanticSim.value, keywordScore))
                ELSE Threw
    IN  IF Len(notes) = 0 THEN Returned(<<>>)
        ELSE LET scored == ScoreNotes(notes, [i \in 1..Len(notes) |-> Score(notes[i])])
             IN  IF scored.ok THEN Returned(sortResults(scored.value)) ELSE Threw

\* retrieveNotesStrict, were it to filter by keyword only
retrieveNotesStrictFromKeywordOnly(query, minSimilarity, queryEmbedding, notes) ==
    LET queryKeywords == extractKeywords(query)
        results == retrieveNotesHybridFrom(query, 5, queryEmbedding, notes)
        Keep(r) == hasKeywordMatch(queryKeywords, r.note.text)
    IN  IF results.ok THEN Returned(SelectSeq(results.value, Keep)) ELSE Threw

\* retrieveNotesStrict from the query, the resolved query embedding and the notes
retrieveNotesStrictFrom(query, minSimilarity, queryEmbedding, notes) ==
    LET queryKeywords == extractKeywords(query)
        results == retrieveNotesHybridFrom(query, 5, queryEmbedding, notes)
        Keep(r) == hasKeywordMatch(queryKeywords, r.note.text)
                       /\ r.similarity >= minSimilarity
    IN  IF results.ok THEN Returned(SelectSeq(results.value, Keep)) ELSE Threw

(***************************************************************************)
(* Summarizer (src/src/rag/summarizer.ts).  Scores are in thousandths: the *)
(* logarithms and square roots are taken from tables rounded to three      *)
(* decimals, so that sentences of the same word statistics score the same  *)
(* and the others compare as their real scores do.                         *)
(***************************************************************************)
\* [.!?]
IsSentenceEnd(c) == c \in {".", "!", "?"}

\* text.split(/(?<=[.!?])\s+/): the separators are the maximal whitespace runs
\* that follow a '.', '!' or '?'; a trailing separator leaves an empty piece
splitAfterSentenceEnd(s) ==
    LET SepStart(i) == IsSpace(s[i]) /\ i > 1 /\ IsSentenceEnd(s[i - 1])
        starts == SelectSeq(Indices(s), SepStart)
        m == Len(starts)
        EndOf(a) == CHOOSE b \in a..Len(s) :
                        /\ \A j \in a..b : IsSpace(s[j])
                        /\ (b = Len(s) \/ ~IsSpace(s[b + 1]))
    IN  [k \in 1..(m + 1) |->
            SubSeq(s, IF k = 1 THEN 1 ELSE EndOf(starts[k - 1]) + 1,
                      IF k = m + 1 THEN Len(s) ELSE starts[k] - 1)]

\* .map(s => s.trim()).filter(s => s.length > 5)
splitIntoSentences(text) ==
    LET pieces == splitAfterSentenceEnd(text)
        trimmed == [k \in 1..Len(pieces) |-> trim(pieces[k])]
    IN  SelectSeq(trimmed, LAMBDA piece : Len(piece) > 5)

\* the summarizer's tokenize: lower case, non-word characters to spaces, the
\* words longer than 2
summarizerTokenize(text) ==
    LET lowered == toLowerCase(text)
        stripped == [i \in 1..Len(lowered) |->
                        IF IsWordChar(lowered[i]) \/ IsSpace(lowered[i])
                        THEN lowered[i] ELSE " "]
    IN  SelectSeq(splitWhitespace(stripped), LAMBDA w : Len(w) > 2)

\* Math.log(n) in thousandths
LogMilli(n) ==
    CASE n = 1 -> 0
      [] n = 2 -> 693
      [] n = 3 -> 1099
      [] n = 4 -> 1386
      [] n = 5 -> 1609
      [] n = 6 -> 1792
      [] n = 7 -> 1946
      [] n = 8 -> 2079

\* Math.sqrt(n) in thousandths
SqrtMilli(n) ==
    CASE n = 0 -> 0
      [] n = 1 -> 1000
      [] n = 2 -> 1414
      [] n = 3 -> 1732
      [] n = 4 -> 2000
      [] n = 5 -> 2236
      [] n = 6 -> 2449
      [] n = 7 -> 2646
      [] n = 8 -> 2828
      [] n = 9 -> 3000
      [] n = 10 -> 3162
      [] n = 11 -> 3317
      [] n = 12 -> 3464
      [] n = 13 -> 3606
      [] n = 14 -> 3742
      [] n = 15 -> 3873
      [] n = 16 -> 4000

\* the entries of the Map: the distinct words
WordsOf(words) == {words[i] : i \in 1..Len(words)}

\* computeIDF: Math.log((docCount + 1) / (df + 1)) + 1 for every word of the
\* sentences, df being the number of sentences that contain it
computeIDF(sentences) ==
    LET docCount == Len(sentences)
        wordSets == [k \in 1..docCount |-> WordsOf(summarizerTokenize(sentences[k]))]
        allWords == UNION {wordSets[k] : k \in 1..docCount}
        df(word) == Cardinality({k \in 1..docCount : word \in wordSets[k]})
    IN  [word \in allWords |->
            LogMilli(docCount + 1) - LogMilli(df(word) + 1) + 1000]

\* computeSentenceScore: the sum of tf * idf over the sentence's distinct words
\* (tf = count / word count, so the sum of idf over all its words, divided by
\* the word count), divided by the square root of the word count; 0 for a
\* sentence without words
computeSentenceScore(sentence, idf) ==
    LET words == summarizerTokenize(sentence)
        n == Len(words)
        idfVal(word) == IF word \in DOMAIN idf THEN idf[word] ELSE 1000
        weighted == [i \in 1..n |-> idfVal(words[i])]
    IN  IF n = 0 THEN 0
        ELSE (SumSeq(weighted) * 1000) \div (n * SqrtMilli(n))

\* Array.prototype.join(' ')
RECURSIVE join(_)
join(parts) ==
    IF parts = <<>> THEN <<>>
    ELSE IF Len(parts) = 1 THEN parts[1]
    ELSE parts[1] \o <<" ">> \o join(Tail(parts))

\* the sort by score, were the later of two equal scores to come first
sortByScoreLaterFirst(scored) ==
    LET n == Len(scored)
        Before(j, i) == \/ scored[j].score > scored[i].score
                        \/ scored[j].score = scored[i].score /\ j > i
        Pos(i) == Cardinality({j \in 1..n : Before(j, i)}) + 1
    IN  [p \in 1..n |-> scored[CHOOSE i \in 1..n : Pos(i) = p]]

\* scoredSentences.sort((a, b) => b.score - a.score), stable
sortByScore(scored) ==
    LET n == Len(scored)
        Before(j, i) == \/ scored[j].score > scored[i].score
                        \/ scored[j].score = scored[i].score /\ j < i
        Pos(i) == Cardinality({j \in 1..n : Before(j, i)}) + 1
    IN  [p \in 1..n |-> scored[CHOOSE i \in 1..n : Pos(i) = p]]

\* .sort((a, b) => a.index - b.index)
sortByIndex(scored) ==
    LET n == Len(scored)
        Pos(i) == Cardinality({j \in 1..n : scored[j].index < scored[i].index}) + 1
    IN  [p \in 1..n |-> scored[CHOOSE i \in 1..n : Pos(i) = p]]

\* the scoring branch of summarize: the numSentences best sentences in text order
summarizeByScore(sentences, numSentences) ==
    LET idf == computeIDF(sentences)
        scoredSentences ==
            [k \in 1..Len(sentences) |->
                [sentence |-> sentences[k],
                 score |-> computeSentenceScore(sentences[k], idf),
                 index |-> k - 1]]
        selected == sortByIndex(slice(sortByScore(scoredSentences), 0, numSentences))
    IN  join([k \in 1..Len(selected) |-> selected[k].sentence])

\* summarize, were it to return the trimmed text when it has nothing to select
summarizeTrimmedText(text, numSentences) ==
    LET sentences == splitIntoSentences(text)
    IN  IF Len(sentences) <= numSentences THEN trim(text)
        ELSE summarizeByScore(sentences, numSentences)

summarize(text, numSentences) ==
    LET sentences == splitIntoSentences(text)
    IN  IF Len(sentences) = 0 THEN trim(text)
        ELSE IF Len(sentences) <= numSentences THEN join(sentences)
        ELSE summarizeByScore(sentences, numSentences)

\* 1 - (index / sentences.length) * 0.3, in units of 1/(10 * sentences.length)
positionBonus(index, count) == 10 * count - 3 * index

\* the scoring branch of summarizeWithPositionBias, the score of sentence k
\* being multiplied by bonus[k]
summarizeByBiasedScore(sentences, numSentences, bonus) ==
    LET idf == computeIDF(sentences)
        scoredSentences ==
            [k \in 1..Len(sentences) |->
                [sentence |-> sentences[k],
                 score |-> computeSentenceScore(sentences[k], idf) * bonus[k],
                 index |-> k - 1]]
        selected == sortByIndex(slice(sortByScore(scoredSentences), 0, numSentences))
    IN  join([k \in 1..Len(selected) |-> selected[k].sentence])

summarizeWithPositionBias(text, numSentences) ==
    LET sentences == splitIntoSentences(text)
    IN  IF Len(sentences) <= numSentences THEN join(sentences)
        ELSE summarizeByBiasedScore(sentences, numSentences,
                 [k \in 1..Len(sentences) |-> positionBonus(k - 1, Len(sentences))])

(***************************************************************************)
(* Context builder (src/src/rag/contextBuilder.ts).  The score of a        *)
(* sentence is kept in halves: the bonus of a capitalized word is 0.5.     *)
(***************************************************************************)
\* text.split(/[.!?]+/): the pieces between maximal runs of '.', '!' and '?';
\* a leading or trailing run leaves an empty piece, and "" splits into [""]
splitOnSentenceEnds(s) ==
    LET RunStart(i) == IsSentenceEnd(s[i]) /\ (i = 1 \/ ~IsSentenceEnd(s[i - 1]))
        RunEnd(i) == IsSentenceEnd(s[i]) /\ (i = Len(s) \/ ~IsSentenceEnd(s[i + 1]))
        starts == SelectSeq(Indices(s), RunStart)
        ends == SelectSeq(Indices(s), RunEnd)
        m == Len(starts)
    IN  [k \in 1..(m + 1) |->
            SubSeq(s, IF k = 1 THEN 1 ELSE ends[k - 1] + 1,
                      IF k = m + 1 THEN Len(s) ELSE starts[k] - 1)]

\* .map(s => s.trim()).filter(s => s.length > 10)
keyCandidates(text) ==
    LET pieces == splitOnSentenceEnds(text)
        trimmed == [k \in 1..Len(pieces) |-> trim(pieces[k])]
    IN  SelectSeq(trimmed, LAMBDA piece : Len(piece) > 10)

keyPhrases ==
    { <<"i", "m", "p", "o", "r", "t", "a", "n", "t">>,
      <<"k", "e", "y">>,
      <<"m", "a", "i", "n">>,
      <<"n", "o", "t", "e">>,
      <<"r", "e", "m", "e", "m", "b", "e", "r">>,
      <<"s", "u", "m", "m", "a", "r", "y">> }

\* sentence.match(/[A-Z][a-z]+/g): one match per capital followed by a small letter
capitalizedWords(sentence) ==
    Cardinality({i \in 1..(Len(sentence) - 1) :
                    sentence[i] \in UpperLetters /\ sentence[i + 1] \in LowerLetters})

\* the score of the sentence at `index` (0-based), in halves
keySentenceScore(sentence, index) ==
    (IF index = 0 THEN 6 ELSE 0)
    + (IF Len(splitWhitespace(sentence)) >= 5 /\ Len(splitWhitespace(sentence)) <= 30
       THEN 4 ELSE 0)
    + 2 * Cardinality({phrase \in keyPhrases : includes(toLowerCase(sentence), phrase)})
    + (IF capitalizedWords(sentence) < 4 THEN capitalizedWords(sentence) ELSE 4)

\* sentences.map((sentence, index) => ({ sentence, score, index }))
scoreSentences(sentences) ==
    [k \in 1..Len(sentences) |->
        [sentence |-> sentences[k], score |-> keySentenceScore(sentences[k], k - 1),
         index |-> k - 1]]

\* scored.sort: by score descending, then by index ascending
sortByScoreThenIndex(scored) ==
    LET Before(a, b) == a.score > b.score \/ (a.score = b.score /\ a.index < b.index)
        Rank(i) == Cardinality({j \in 1..Len(scored) : Before(scored[j], scored[i])}) + 1
    IN  [r \in 1..Len(scored) |-> scored[CHOOSE i \in 1..Len(scored) : Rank(i) = r]]

\* the selection left in the order of the scores
keepScoreOrder(top) == top

\* .sort((a, b) => a.index - b.index)
restoreOrder(top) ==
    LET Rank(i) == Cardinality({j \in 1..Len(top) : top[j].index < top[i].index}) + 1
    IN  [r \in 1..Len(top) |-> top[CHOOSE i \in 1..Len(top) : Rank(i) = r]]

\* .map(s => s.sentence)
sentencesOf(top) == [r \in 1..Len(top) |-> top[r].sentence]

extractKeySentences(text, maxSentences) ==
    IF Len(keyCandidates(text)) = 0 THEN <<trim(text)>>
    ELSE IF Len(keyCandidates(text)) <= maxSentences THEN keyCandidates(text)
    ELSE sentencesOf(restoreOrder(slice(sortByScoreThenIndex(
             scoreSentences(keyCandidates(text))), 0, maxSentences)))

\* Array.prototype.join(sep)
RECURSIVE joinWith(_, _)
joinWith(parts, sep) ==
    IF parts = <<>> THEN <<>>
    ELSE IF Len(parts) = 1 THEN parts[1]
    ELSE parts[1] \o sep \o joinWith(Tail(parts), sep)

DigitChar(d) ==
    CASE d = 0 -> "0" [] d = 1 -> "1" [] d = 2 -> "2" [] d = 3 -> "3" [] d = 4 -> "4"
      [] d = 5 -> "5" [] d = 6 -> "6" [] d = 7 -> "7" [] d = 8 -> "8" [] d = 9 -> "9"

\* `${n}` for an integer n >= 0
RECURSIVE decimal(_)
decimal(n) == IF n < 10 THEN <<DigitChar(n)>> ELSE Append(decimal(n \div 10), DigitChar(n % 10))

HighLabel == <<"H", "i", "g", "h">>

MediumLabel == <<"M", "e", "d", "i", "u", "m">>

LowLabel == <<"L", "o", "w">>

\* the labels, were the thresholds inclusive
relevanceLabelInclusive(similarity) ==
    IF similarity >= Tenths(7) THEN HighLabel
    ELSE IF similarity >= Tenths(5) THEN MediumLabel
    ELSE LowLabel

\* similarity > 0.7 ? 'High' : similarity > 0.5 ? 'Medium' : 'Low'
relevanceLabel(similarity) ==
    IF similarity > Tenths(7) THEN HighLabel
    ELSE IF similarity > Tenths(5) THEN MediumLabel
    ELSE LowLabel

\* `[Source ${i + 1} - ${relevanceLabel} relevance]\n`, i being 0-based
sourceHeader(i, label) ==
    <<"[", "S", "o", "u", "r", "c", "e", " ">> \o decimal(i + 1) \o <<" ", "-", " ">>
        \o label \o <<" ", "r", "e", "l", "e", "v", "a", "n", "c", "e", "]", "\n">>

\* `...${keySentences.join('. ')}.` for the result at index i
sourceBlock(i, result) ==
    sourceHeader(i, relevanceLabel(result.similarity))
        \o joinWith(extractKeySentences(result.note.text, 2), <<".", " ">>) \o <<".">>

\* the part of buildContext after topK
contextOf(topResults) ==
    IF Len(topResults) = 0 THEN [context |-> <<>>, supportingNotes |-> <<>>]
    ELSE [context |-> joinWith([r \in 1..Len(topResults) |-> sourceBlock(r - 1, topResults[r])],
                               <<"\n", "\n">>),
          supportingNotes |-> [r \in 1..Len(topResults) |-> topResults[r].note]]

buildContext(results, k) == contextOf(topK(results, k))

(***************************************************************************)
(* Bounds and inputs of the embedder and the retriever                     *)
(***************************************************************************)
NumCallers == 2

MaxLoads == 2

MaxNotes == 2

\* callers of embedText / preloadModel (SpecLoad); caller 0 retrieves (SpecRetr)
LoadCallers == 1..NumCallers

AllCallers == 0..NumCallers

RetrCaller == CHOOSE c \in AllCallers : c \notin LoadCallers

\* what the engine's output pools to, before l2Normalize
RawOutputs == { <<6, 8>>, <<0, 5>>, <<0, 0>> }

EmbedTexts == { <<"c", "a", "b">> }

Queries ==
    { <<"c", "a", "b">>,
      <<"a", " ", "b">>,
      <<"C", "a", "b", " ", "d", "e", "e", "!">> }

NoteKinds ==
    { [text |-> <<"c", "a", "b", " ", "d", "e", "e">>, embedding |-> <<4, 3>>],
      [text |-> <<"C", "a", "b", "s">>, embedding |-> <<3, 4>>],
      [text |-> <<"z", "z">>, embedding |-> <<0, 0>>],
      [text |-> <<"d", "e", "e", ".">>, embedding |-> <<5>>] }

HybridWeights == {6, 10}

StrictMins == {Tenths(0), Tenths(2)}

(***************************************************************************)
(* Embedder (src/src/embedding/embed.ts).  An awaited call of the platform *)
(* (RNFS, InferenceSession, model.run, the database) completes in a step   *)
(* of its own, which also runs the continuation up to the next await; the  *)
(* code between two awaits is atomic, the scheduler being cooperative.     *)
(* Those calls return promises: they resolve or reject, none throws before *)
(* returning.                                                              *)
(***************************************************************************)
NULL == 0

\* the first await of the load body: RNFS.exists(destPath) on Android,
\* RNFS.exists(finalModelPath) on iOS
firstAwait(os) == IF os = "android" THEN "exists" ELSE "verify"

\* loadModel without the check of the in-flight promise
loadModelNoInFlightCheck(sess, loading, next) ==
    IF sess # NULL THEN [starts |-> FALSE, awaiting |-> NULL, model |-> sess]
    ELSE [starts |-> TRUE, awaiting |-> next, model |-> NULL]

\* loadModel(): the cached session, else the in-flight promise, else a new
\* load whose promise (id next) becomes sessionLoading
loadModel(sess, loading, next) ==
    IF sess # NULL THEN [starts |-> FALSE, awaiting |-> NULL, model |-> sess]
    ELSE IF loading # NULL THEN [starts |-> FALSE, awaiting |-> loading, model |-> NULL]
    ELSE [starts |-> TRUE, awaiting |-> next, model |-> NULL]

IdleCall ==
    [op |-> "none", pc |-> "idle", awaiting |-> NULL, model |-> NULL, query |-> <<>>,
     param |-> 0, embedding |-> <<>>, notes |-> <<>>, value |-> <<>>,
     failure |-> "none", reads |-> 0]

\* the start of a call, were a retrieve* function to call getAllNotes() before
\* it awaits the embedding
BeginCallReadsNotes(c, op, query, param) ==
    /\ calls[c].pc = "idle"
    /\ LET lm == loadModel(session, sessionLoading, Len(loads) + 1)
       IN  /\ calls' = [calls EXCEPT ![c] =
                           [IdleCall EXCEPT !.op = op, !.pc = "awaitLoad",
                                            !.awaiting = lm.awaiting, !.model = lm.model,
                                            !.query = query, !.param = param,
                                            !.reads = IF op \in {"embedText", "preloadModel"}
                                                      THEN 0 ELSE 1]]
           /\ IF lm.starts
              THEN /\ Len(loads) < MaxLoads
                   /\ loads' = Append(loads, firstAwait(platform))
                   /\ sessionLoading' = lm.awaiting
              ELSE UNCHANGED <<loads, sessionLoading>>
    /\ UNCHANGED <<session, platform, store, tokVars, rankVars, pureVars>>

\* the synchronous start of embedText(query): tokenize, then loadModel() up
\* to its first await
BeginCall(c, op, query, param) ==
    /\ calls[c].pc = "idle"
    /\ LET lm == loadModel(session, sessionLoading, Len(loads) + 1)
       IN  /\ calls' = [calls EXCEPT ![c] =
                           [IdleCall EXCEPT !.op = op, !.pc = "awaitLoad",
                                            !.awaiting = lm.awaiting, !.model = lm.model,
                                            !.query = query, !.param = param]]
           /\ IF lm.starts
              THEN /\ Len(loads) < MaxLoads
                   /\ loads' = Append(loads, firstAwait(platform))
                   /\ sessionLoading' = lm.awaiting
              ELSE UNCHANGED <<loads, sessionLoading>>
    /\ UNCHANGED <<session, platform, store, tokVars, rankVars, pureVars>>

\* the catch block of the load body, were it to leave sessionLoading alone
LoadFailKeepsPromise(p) ==
    /\ loads' = [loads EXCEPT ![p] = "rejected"]
    /\ UNCHANGED <<session, sessionLoading, platform, calls,
                   store, tokVars, rankVars, pureVars, searchVars>>

\* the catch block of the load body: sessionLoading = null, and the promise rejects
LoadFail(p) ==
    /\ loads' = [loads EXCEPT ![p] = "rejected"]
    /\ sessionLoading' = NULL
    /\ UNCHANGED <<session, platform, calls, store, tokVars, rankVars, pureVars, searchVars>>

LoadGoes(p, to) ==
    /\ loads' = [loads EXCEPT ![p] = to]
    /\ UNCHANGED <<session, sessionLoading, platform, calls,
                   store, tokVars, rankVars, pureVars, searchVars>>

\* await RNFS.exists(destPath) on Android: copy when the file is not there
LoadExists(p) ==
    /\ loads[p] = "exists"
    /\ \/ LoadGoes(p, "verify")
       \/ LoadGoes(p, "copy")
       \/ LoadFail(p)

\* await RNFS.copyFileAssets(modelPath, destPath)
LoadCopy(p) ==
    /\ loads[p] = "copy"
    /\ \/ LoadGoes(p, "verify")
       \/ LoadFail(p)

\* const modelExists = await RNFS.exists(...): throw when the file is not there
LoadVerify(p) ==
    /\ loads[p] = "verify"
    /\ \/ LoadGoes(p, "create")
       \/ LoadFail(p)

\* InferenceSession.create resolves, were its session not kept
LoadCreatedNotCached(p) ==
    /\ loads' = [loads EXCEPT ![p] = "resolved"]
    /\ UNCHANGED <<session, sessionLoading, platform, calls,
                   store, tokVars, rankVars, pureVars, searchVars>>

\* session = await InferenceSession.create(finalModelPath); return session
LoadCreated(p) ==
    /\ session' = p
    /\ loads' = [loads EXCEPT ![p] = "resolved"]
    /\ UNCHANGED <<sessionLoading, platform, calls, store, tokVars, rankVars, pureVars, searchVars>>

LoadCreate(p) ==
    /\ loads[p] = "create"
    /\ \/ LoadCreated(p)
       \/ LoadFail(p)

\* the load body stands at an await
Pending(at) == at \in {"exists", "copy", "verify", "create"}

InFlight(p) == Pending(loads[p])

\* the continuation of `await loadModel()`, were only a fulfilled promise to
\* resume its awaiters
ResumeAfterLoadFulfilledOnly(c) ==
    LET call == calls[c]
        a == call.awaiting
    IN  /\ call.pc = "awaitLoad"
        /\ a # NULL => loads[a] = "resolved"
        /\ IF call.op = "preloadModel"
           THEN calls' = [calls EXCEPT ![c].pc = "resolved"]
           ELSE calls' = [calls EXCEPT ![c].pc = "awaitRun",
                                       ![c].model = IF a = NULL THEN call.model ELSE a]
        /\ UNCHANGED <<session, sessionLoading, loads, platform,
                       store, tokVars, rankVars, pureVars, searchVars>>

\* the continuation of `await loadModel()` in embedText and preloadModel
ResumeAfterLoad(c) ==
    LET call == calls[c]
        a == call.awaiting
    IN  /\ call.pc = "awaitLoad"
        /\ a # NULL => ~InFlight(a)
        /\ IF a # NULL /\ loads[a] = "rejected"
           THEN calls' = [calls EXCEPT ![c].pc = "rejected", ![c].failure = "load"]
           ELSE IF call.op = "preloadModel"
                THEN calls' = [calls EXCEPT ![c].pc = "resolved"]
                ELSE calls' = [calls EXCEPT ![c].pc = "awaitRun",
                                            ![c].model = IF a = NULL THEN call.model ELSE a]
        /\ UNCHANGED <<session, sessionLoading, loads, platform,
                       store, tokVars, rankVars, pureVars, searchVars>>

\* what makes an inference fail: model.run throws, or its results hold no
\* output tensor
RunFailures == {"run", "noOutput"}

\* the continuation of `await model.run(inputs)`, were the catch block to
\* return a zero vector
RunDoneSwallows(c) ==
    /\ calls[c].pc = "awaitRun"
    /\ \/ \E cause \in RunFailures :
             calls' = [calls EXCEPT
                          ![c].embedding = <<l2Normalize(<<0, 0>>)>>,
                          ![c].failure = cause,
                          ![c].reads = IF calls[c].op = "embedText" THEN 0 ELSE 1,
                          ![c].pc = IF calls[c].op = "embedText" THEN "resolved"
                                    ELSE "awaitNotes"]
       \/ \E raw \in RawOutputs :
             calls' = [calls EXCEPT
                          ![c].embedding = <<l2Normalize(raw)>>,
                          ![c].reads = IF calls[c].op = "embedText" THEN 0 ELSE 1,
                          ![c].pc = IF calls[c].op = "embedText" THEN "resolved"
                                    ELSE "awaitNotes"]
    /\ UNCHANGED <<session, sessionLoading, loads, platform,
                   store, tokVars, rankVars, pureVars, searchVars>>

\* the continuation of `await model.run(inputs)`, were the catch block to
\* drop the cached session
RunDoneDropsSession(c) ==
    /\ calls[c].pc = "awaitRun"
    /\ \/ /\ \E cause \in RunFailures :
                calls' = [calls EXCEPT ![c].pc = "rejected", ![c].failure = cause]
          /\ session' = NULL
       \/ /\ \E raw \in RawOutputs :
                calls' = [calls EXCEPT
                             ![c].embedding = <<l2Normalize(raw)>>,
                             ![c].reads = IF calls[c].op = "embedText" THEN 0 ELSE 1,
                             ![c].pc = IF calls[c].op = "embedText" THEN "resolved"
                                       ELSE "awaitNotes"]
          /\ UNCHANGED session
    /\ UNCHANGED <<sessionLoading, loads, platform, store, tokVars, rankVars, pureVars, searchVars>>

\* the continuation of `await model.run(inputs)`: the engine throws, returns
\* no output tensor, or returns one that pools to `raw`; a retrieve* function
\* then calls getAllNotes() (reads counts those calls)
RunDone(c) ==
    /\ calls[c].pc = "awaitRun"
    /\ \/ \E cause \in RunFailures :
             calls' = [calls EXCEPT ![c].pc = "rejected", ![c].failure = cause]
       \/ \E raw \in RawOutputs :
             calls' = [calls EXCEPT
                          ![c].embedding = <<l2Normalize(raw)>>,
                          ![c].reads = IF calls[c].op = "embedText" THEN 0 ELSE 1,
                          ![c].pc = IF calls[c].op = "embedText" THEN "resolved"
                                    ELSE "awaitNotes"]
    /\ UNCHANGED <<session, sessionLoading, loads, platform,
                   store, tokVars, rankVars, pureVars, searchVars>>

\* the caller takes the settled result; it may call again
Return(c) ==
    /\ calls[c].pc \in {"resolved", "rejected"}
    /\ calls' = [calls EXCEPT ![c] = IdleCall]
    /\ UNCHANGED <<session, sessionLoading, loads, platform,
                   store, tokVars, rankVars, pureVars, searchVars>>

\* getAllNotes() resolves with the notes table as it is then, and the
\* retrieve* function scores and sorts it
retrieveFrom(call, notes) ==
    CASE call.op = "retrieveNotes" ->
             retrieveNotesFrom(call.embedding[1], notes)
      [] call.op = "retrieveNotesHybrid" ->
             retrieveNotesHybridFrom(call.query, call.param, call.embedding[1], notes)
      [] call.op = "retrieveNotesStrict" ->
             retrieveNotesStrictFrom(call.query, call.param, call.embedding[1], notes)

NotesDone(c) ==
    /\ calls[c].pc = "awaitNotes"
    /\ LET r == retrieveFrom(calls[c], store)
       IN  calls' = [calls EXCEPT ![c].notes = <<store>>,
                                  ![c].pc = IF r.ok THEN "resolved" ELSE "rejected",
                                  ![c].value = IF r.ok THEN <<r.value>> ELSE <<>>]
    /\ UNCHANGED <<session, sessionLoading, loads, platform,
                   store, tokVars, rankVars, pureVars, searchVars>>

\* saveNote(text, embedding): a new row, the most recent
SaveNote ==
    /\ Len(store) < MaxNotes
    /\ \E kind \in NoteKinds :
          store' = <<[id |-> Len(store) + 1, text |-> kind.text,
                      embedding |-> kind.embedding, timestamp |-> Len(store) + 1]>> \o store
    /\ UNCHANGED <<session, sessionLoading, loads, platform,
                   calls, tokVars, rankVars, pureVars, searchVars>>

(***************************************************************************)
(* Tokenizer inputs: a unit repeated up to MaxRepeat times, then a tail.   *)
(***************************************************************************)
MaxRepeat == 130

TokUnits ==
    { <<"z">>,                          \* one growing word, one [UNK] per character
      <<"a", "b", " ">>,                \* one-piece words
      <<"a", "b", "c", "\t", " ">>,     \* two-piece words
      <<"B", "@">> }                    \* a disallowed character separates words

TokTails ==
    { <<>>,
      <<" ", "\n">>,
      <<"h", "e", "l", "l", "o", " ", "w", "o", "r", "l", "d">>,
      <<"H", "e", "l", "l", "o", ".">>,
      <<"a", "b", "b", "c", "z">>,
      <<"c", "o", "n", "s", "t", "r", "u", "c", "t", "o", "r">> }

TokInputs == {Repeat(u, n) \o t : u \in TokUnits, n \in 0..MaxRepeat, t \in TokTails}

(***************************************************************************)
(* Ranker inputs: lists of at most MaxList results; the note's id is its   *)
(* position in the input list, so that results of equal text and score     *)
(* stay distinguishable.                                                   *)
(***************************************************************************)
MaxList == 3

MaxK == 3

RankTexts ==
    { <<"c", "a", "b">>,
      <<"c", "a", "b", " ", "d", "e">>,
      <<"D", "e", " ", " ", "z">> }

RankSims == {0, Tenths(3), Tenths(8)}

RankThresholds == {Tenths(3), Tenths(5)}

RankLambdas == {0, 7, 10}

RankInputs ==
    UNION { { [i \in 1..n |-> [note |-> [id |-> i, text |-> t[i]], similarity |-> sim[i]]] :
                t \in [1..n -> RankTexts], sim \in [1..n -> RankSims] } : n \in 0..MaxList }

embedVars == <<platform, session, sessionLoading, loads, calls, store>>

vars ==
    <<tokText, tokOut, rankIn, rankOut, platform, session, sessionLoading, loads, calls,
      store, pureIn, pureOut, queryText, debounceTimer, searchResults>>

\* the search screen as it is after mount: useState('') and useState([]), the
\* effect on [query] having found the query empty
SearchIdle ==
    /\ queryText = <<>>
    /\ debounceTimer = <<>>
    /\ searchResults = <<>>

\* the embedder and the store as they are after import: nothing loaded
EmbedIdle ==
    /\ platform = "android"
    /\ session = NULL
    /\ sessionLoading = NULL
    /\ loads = <<>>
    /\ calls = [c \in AllCallers |-> IdleCall]
    /\ store = <<>>
    /\ pureIn = <<>>
    /\ pureOut = <<>>

(***************************************************************************)
(* SpecTok: tokenize() applied to one input text                           *)
(***************************************************************************)
InitTok ==
    /\ tokText \in TokInputs
    /\ tokOut = <<>>
    /\ rankIn = <<>>
    /\ rankOut = <<>>
    /\ EmbedIdle
    /\ SearchIdle

Tokenize ==
    /\ tokOut = <<>>
    /\ tokOut' = <<tokenize(tokText)>>
    /\ UNCHANGED <<tokText, rankVars, embedVars, pureVars, searchVars>>

NextTok == Tokenize

SpecTok == InitTok /\ [][NextTok]_vars

(***************************************************************************)
(* SpecWord: wordPieceTokenize(word) run one pass of its outer loop at a   *)
(* time, on every word of at most MaxWordLen characters of WordAlphabet    *)
(* and on some longer ones                                                 *)
(***************************************************************************)
MaxWordLen == 3

WordAlphabet == {"a", "b", "c", "z", "."}

LongWords ==
    { <<"h", "e", "l", "l", "o">>,
      <<"a", "b", "b", "c", "z">>,
      <<"c", "o", "n", "s", "t", "r", "u", "c", "t", "o", "r">> }

Words == LongWords \cup UNION {[1..n -> WordAlphabet] : n \in 0..MaxWordLen}

InitWord ==
    /\ pureIn \in [word : Words]
    /\ pureOut = <<>>
    /\ tokText = <<>>
    /\ tokOut = <<>>
    /\ rankIn = <<>>
    /\ rankOut = <<>>
    /\ platform = "android"
    /\ session = NULL
    /\ sessionLoading = NULL
    /\ loads = <<>>
    /\ calls = [c \in AllCallers |-> IdleCall]
    /\ store = <<>>
    /\ SearchIdle

\* const tokens = []; let start = 0
WordPieceEnter ==
    /\ pureOut = <<>>
    /\ pureOut' = <<[start |-> 0, tokens |-> <<>>, returned |-> FALSE]>>
    /\ UNCHANGED <<pureIn, tokVars, rankVars, embedVars, searchVars>>

\* while (start < word.length) { ... }: one pass
WordPieceIterate ==
    /\ pureOut # <<>>
    /\ ~pureOut[1].returned
    /\ pureOut[1].start < Len(pureIn.word)
    /\ LET next == WordPieceStep(pureIn.word, pureOut[1].start, pureOut[1].tokens)
       IN  pureOut' = <<[start |-> next.start, tokens |-> next.tokens, returned |-> FALSE]>>
    /\ UNCHANGED <<pureIn, tokVars, rankVars, embedVars, searchVars>>

\* return tokens
WordPieceReturn ==
    /\ pureOut # <<>>
    /\ ~pureOut[1].returned
    /\ ~(pureOut[1].start < Len(pureIn.word))
    /\ pureOut' = <<[pureOut[1] EXCEPT !.returned = TRUE]>>
    /\ UNCHANGED <<pureIn, tokVars, rankVars, embedVars, searchVars>>

NextWord == WordPieceEnter \/ WordPieceIterate \/ WordPieceReturn

SpecWord == InitWord /\ [][NextWord]_vars

\* the function runs on: no pass of the loop waits for anything
SpecWordFair == SpecWord /\ WF_vars(NextWord)

(***************************************************************************)
(* SpecRank: one ranking call on one input list                            *)
(***************************************************************************)
InitRank ==
    /\ rankIn \in RankInputs
    /\ rankOut = <<>>
    /\ tokText = <<>>
    /\ tokOut = <<>>
    /\ EmbedIdle
    /\ SearchIdle

CallSortBySimilarity ==
    /\ rankOut = <<>>
    /\ rankOut' = <<[op |-> "sortBySimilarity", k |-> 0, minSimilarity |-> 0, lambda |-> 0,
                     given |-> rankIn, out |-> sortBySimilarity(rankIn)]>>
    /\ rankIn' = sortBySimilarityHeap(<<rankIn>>, 1).heap[1]
    /\ UNCHANGED <<tokVars, embedVars, pureVars, searchVars>>

CallTopK ==
    /\ rankOut = <<>>
    /\ \E k \in -1..MaxK :
          /\ rankOut' = <<[op |-> "topK", k |-> k, minSimilarity |-> 0, lambda |-> 0,
                           given |-> rankIn, out |-> topK(rankIn, k)]>>
          /\ rankIn' = topKHeap(<<rankIn>>, 1, k)[1]
    /\ UNCHANGED <<tokVars, embedVars, pureVars, searchVars>>

CallTopKWithThreshold ==
    /\ rankOut = <<>>
    /\ \E k \in -1..MaxK, m \in RankThresholds :
          /\ rankOut' = <<[op |-> "topKWithThreshold", k |-> k, minSimilarity |-> m,
                           lambda |-> 0, given |-> rankIn,
                           out |-> topKWithThreshold(rankIn, k, m)]>>
          /\ rankIn' = topKWithThresholdHeap(<<rankIn>>, 1, k, m)[1]
    /\ UNCHANGED <<tokVars, embedVars, pureVars, searchVars>>

CallMmrRank ==
    /\ rankOut = <<>>
    /\ \E k \in -1..MaxK, l \in RankLambdas :
          /\ rankOut' = <<[op |-> "mmrRank", k |-> k, minSimilarity |-> 0, lambda |-> l,
                           given |-> rankIn, out |-> mmrRank(rankIn, k, l)]>>
          /\ rankIn' = mmrRankHeap(<<rankIn>>, 1, k, l)[1]
    /\ UNCHANGED <<tokVars, embedVars, pureVars, searchVars>>

NextRank == CallSortBySimilarity \/ CallTopK \/ CallTopKWithThreshold \/ CallMmrRank

SpecRank == InitRank /\ [][NextRank]_vars

(***************************************************************************)
(* SpecMmr: mmrRank(results, k, lambda) run one pass of its while loop at  *)
(* a time                                                                  *)
(***************************************************************************)
MaxMmrList == 4

MmrSims == {Tenths(3), Tenths(8)}

MmrInputs ==
    UNION { { [i \in 1..n |-> [note |-> [id |-> i, text |-> t[i]], similarity |-> sim[i]]] :
                t \in [1..n -> RankTexts], sim \in [1..n -> MmrSims] } : n \in 0..MaxMmrList }

InitMmr ==
    /\ pureIn \in [results : MmrInputs, k : -1..MaxK, lambda : RankLambdas]
    /\ pureOut = <<>>
    /\ tokText = <<>>
    /\ tokOut = <<>>
    /\ rankIn = <<>>
    /\ rankOut = <<>>
    /\ platform = "android"
    /\ session = NULL
    /\ sessionLoading = NULL
    /\ loads = <<>>
    /\ calls = [c \in AllCallers |-> IdleCall]
    /\ store = <<>>
    /\ SearchIdle

\* if (results.length === 0 || k <= 0) return []
MmrReturnEmpty ==
    /\ pureOut = <<>>
    /\ Len(pureIn.results) = 0 \/ pureIn.k <= 0
    /\ pureOut' = <<[selected |-> <<>>, remaining |-> <<>>, returned |-> TRUE]>>
    /\ UNCHANGED <<pureIn, tokVars, rankVars, embedVars, searchVars>>

\* sorted = sortBySimilarity(results); selected = []; remaining = [...sorted]
MmrEnter ==
    /\ pureOut = <<>>
    /\ ~(Len(pureIn.results) = 0 \/ pureIn.k <= 0)
    /\ pureOut' = <<[selected |-> <<>>, remaining |-> sortBySimilarity(pureIn.results),
                     returned |-> FALSE]>>
    /\ UNCHANGED <<pureIn, tokVars, rankVars, embedVars, searchVars>>

\* while (selected.length < k && remaining.length > 0) { ... }: one pass
MmrIterate ==
    /\ pureOut # <<>>
    /\ ~pureOut[1].returned
    /\ Len(pureOut[1].selected) < pureIn.k /\ Len(pureOut[1].remaining) > 0
    /\ LET next == mmrStep(pureOut[1].selected, pureOut[1].remaining, pureIn.lambda)
       IN  pureOut' = <<[selected |-> next.selected, remaining |-> next.remaining,
                         returned |-> FALSE]>>
    /\ UNCHANGED <<pureIn, tokVars, rankVars, embedVars, searchVars>>

\* return selected
MmrReturn ==
    /\ pureOut # <<>>
    /\ ~pureOut[1].returned
    /\ ~(Len(pureOut[1].selected) < pureIn.k /\ Len(pureOut[1].remaining) > 0)
    /\ pureOut' = <<[pureOut[1] EXCEPT !.returned = TRUE]>>
    /\ UNCHANGED <<pureIn, tokVars, rankVars, embedVars, searchVars>>

NextMmr == MmrReturnEmpty \/ MmrEnter \/ MmrIterate \/ MmrReturn

SpecMmr == InitMmr /\ [][NextMmr]_vars

(***************************************************************************)
(* SpecLoad: concurrent embedText / preloadModel calls on the embedder     *)
(***************************************************************************)
CallEmbedText(c) ==
    /\ \E text \in EmbedTexts : BeginCall(c, "embedText", text, 0)
    /\ UNCHANGED searchVars

CallPreloadModel(c) ==
    /\ BeginCall(c, "preloadModel", <<>>, 0)
    /\ UNCHANGED searchVars

InitLoad ==
    /\ platform \in {"android", "ios"}
    /\ session = NULL
    /\ sessionLoading = NULL
    /\ loads = <<>>
    /\ calls = [c \in AllCallers |-> IdleCall]
    /\ store = <<>>
    /\ tokText = <<>>
    /\ tokOut = <<>>
    /\ rankIn = <<>>
    /\ rankOut = <<>>
    /\ pureIn = <<>>
    /\ pureOut = <<>>
    /\ SearchIdle

NextLoad ==
    \/ \E c \in LoadCallers : CallEmbedText(c)
    \/ \E c \in LoadCallers : CallPreloadModel(c)
    \/ \E p \in 1..Len(loads) : LoadExists(p)
    \/ \E p \in 1..Len(loads) : LoadCopy(p)
    \/ \E p \in 1..Len(loads) : LoadVerify(p)
    \/ \E p \in 1..Len(loads) : LoadCreate(p)
    \/ \E c \in LoadCallers : ResumeAfterLoad(c)
    \/ \E c \in LoadCallers : RunDone(c)
    \/ \E c \in LoadCallers : Return(c)

SpecLoad == InitLoad /\ [][NextLoad]_vars

\* the await at which load attempt p stands completes
LoadStep(p) ==
    /\ p \in 1..Len(loads)
    /\ (LoadExists(p) \/ LoadCopy(p) \/ LoadVerify(p) \/ LoadCreate(p))

\* SpecLoad where every awaited platform call (file system, session creation,
\* inference) eventually returns or throws, and the continuation of a settled
\* promise is eventually run
SpecLoadFair ==
    /\ SpecLoad
    /\ \A p \in 1..MaxLoads : WF_vars(LoadStep(p))
    /\ \A c \in LoadCallers : WF_vars(ResumeAfterLoad(c))
    /\ \A c \in LoadCallers : WF_vars(RunDone(c))

(***************************************************************************)
(* SpecRetr: retrieve* and embedText calls, one after another, while notes *)
(* are saved                                                               *)
(***************************************************************************)
CallRetrieveNotes ==
    /\ \E q \in Queries : BeginCall(RetrCaller, "retrieveNotes", q, 0)
    /\ UNCHANGED searchVars

CallRetrieveNotesHybrid ==
    /\ \E q \in Queries, w \in HybridWeights :
          BeginCall(RetrCaller, "retrieveNotesHybrid", q, w)
    /\ UNCHANGED searchVars

CallRetrieveNotesStrict ==
    /\ \E q \in Queries, m \in StrictMins :
          BeginCall(RetrCaller, "retrieveNotesStrict", q, m)
    /\ UNCHANGED searchVars

NextRetr ==
    \/ CallEmbedText(RetrCaller)
    \/ CallRetrieveNotes
    \/ CallRetrieveNotesHybrid
    \/ CallRetrieveNotesStrict
    \/ \E p \in 1..Len(loads) : LoadExists(p)
    \/ \E p \in 1..Len(loads) : LoadCopy(p)
    \/ \E p \in 1..Len(loads) : LoadVerify(p)
    \/ \E p \in 1..Len(loads) : LoadCreate(p)
    \/ ResumeAfterLoad(RetrCaller)
    \/ RunDone(RetrCaller)
    \/ NotesDone(RetrCaller)
    \/ Return(RetrCaller)
    \/ SaveNote

SpecRetr == InitLoad /\ [][NextRetr]_vars

(***************************************************************************)
(* SpecSearch: the search screen (src/src/screens/Search.tsx).  The query  *)
(* is edited, the debounce timer fires and calls performSearch, whose      *)
(* retrieveNotesStrict call runs as the calls of SpecLoad do; up to        *)
(* NumCallers searches are in flight at a time.                            *)
(***************************************************************************)
\* retrieveNotesStrict(searchQuery, 0.15)
SearchMinSimilarity == (15 * ScoreDen) \div 100

SearchQueries ==
    { <<>>,
      <<"c", "a", "b">>,
      <<"d", "e", "e">> }

\* the notes table while the screen is shown, most recent first
SearchStore ==
    << [id |-> 2, text |-> <<"c", "a", "b", " ", "d", "e", "e">>,
        embedding |-> <<4, 3>>, timestamp |-> 2],
       [id |-> 1, text |-> <<"C", "a", "b", "s">>,
        embedding |-> <<3, 4>>, timestamp |-> 1] >>

InitSearch ==
    /\ platform \in {"android", "ios"}
    /\ session = NULL
    /\ sessionLoading = NULL
    /\ loads = <<>>
    /\ calls = [c \in AllCallers |-> IdleCall]
    /\ store = SearchStore
    /\ tokText = <<>>
    /\ tokOut = <<>>
    /\ rankIn = <<>>
    /\ rankOut = <<>>
    /\ pureIn = <<>>
    /\ pureOut = <<>>
    /\ SearchIdle

\* onChangeText={setQuery} and the effect on [query]: the pending timer is
\* cleared; an empty query empties searchResults, any other starts a timer
SetQuery(text) ==
    /\ text # queryText
    /\ queryText' = text
    /\ IF trim(text) = <<>>
       THEN /\ searchResults' = <<>>
            /\ debounceTimer' = <<>>
       ELSE /\ debounceTimer' = <<text>>
            /\ UNCHANGED searchResults
    /\ UNCHANGED <<embedVars, tokVars, rankVars, pureVars>>

EditQuery == \E text \in SearchQueries : SetQuery(text)

\* retrievedResults.slice(0, 10).map(r => r.note)
matchedNotes(retrievedResults) ==
    LET top == slice(retrievedResults, 0, 10)
    IN  [i \in 1..Len(top) |-> top[i].note]

\* the timer fires: performSearch(query.trim()) up to its await, as call c
DebounceFires(c) ==
    /\ debounceTimer # <<>>
    /\ \A d \in LoadCallers : calls[d].pc = "idle" => c <= d
    /\ BeginCall(c, "retrieveNotesStrict", trim(debounceTimer[1]), SearchMinSimilarity)
    /\ debounceTimer' = <<>>
    /\ UNCHANGED <<queryText, searchResults>>

\* the continuation of `await retrieveNotesStrict(...)` in performSearch:
\* setSearchResults(matchedNotes), or the catch block, which only logs
SearchSettles(c) ==
    /\ calls[c].op = "retrieveNotesStrict"
    /\ calls[c].pc \in {"resolved", "rejected"}
    /\ searchResults' = IF calls[c].pc = "resolved"
                        THEN matchedNotes(calls[c].value[1])
                        ELSE searchResults
    /\ calls' = [calls EXCEPT ![c] = IdleCall]
    /\ UNCHANGED <<session, sessionLoading, loads, platform, store, tokVars, rankVars,
                   pureVars, queryText, debounceTimer>>

NextSearch ==
    \/ EditQuery
    \/ \E c \in LoadCallers : DebounceFires(c)
    \/ \E p \in 1..Len(loads) : LoadExists(p)
    \/ \E p \in 1..Len(loads) : LoadCopy(p)
    \/ \E p \in 1..Len(loads) : LoadVerify(p)
    \/ \E p \in 1..Len(loads) : LoadCreate(p)
    \/ \E c \in LoadCallers : ResumeAfterLoad(c)
    \/ \E c \in LoadCallers : RunDone(c)
    \/ \E c \in LoadCallers : NotesDone(c)
    \/ \E c \in LoadCallers : SearchSettles(c)

SpecSearch == InitSearch /\ [][NextSearch]_vars

(***************************************************************************)
(* SpecSum: summarize() applied to one text.  A text is up to MaxUnits     *)
(* units, each followed by the same separator, after an optional blank.    *)
(***************************************************************************)
MaxUnits == 3

SumUnits ==
    { <<"A", "b", "b", "a", " ", "b", "a", "d", ".">>,
      <<"C", "a", "b", "s", " ", " ", "l", "o", "a", "d", "!">>,
      <<"S", "o", ".">>,
      <<"b", "a", "d", " ", "c", "a", "b", " ", "d", "o", "e", "s">> }

SumSeparators == { <<" ">>, <<" ", "\n">> }

SumLeads == { <<>>, <<" ">> }

RECURSIVE Concat(_)
Concat(parts) == IF parts = <<>> THEN <<>> ELSE Head(parts) \o Concat(Tail(parts))

SumTexts ==
    UNION { { lead \o Concat([k \in 1..n |-> units[k] \o sep]) :
                units \in [1..n -> SumUnits], sep \in SumSeparators, lead \in SumLeads } :
            n \in 0..MaxUnits }

SumCounts == -1..MaxUnits

InitSum ==
    /\ pureIn \in [text : SumTexts, numSentences : SumCounts]
    /\ pureOut = <<>>
    /\ tokText = <<>>
    /\ tokOut = <<>>
    /\ rankIn = <<>>
    /\ rankOut = <<>>
    /\ platform = "android"
    /\ session = NULL
    /\ sessionLoading = NULL
    /\ loads = <<>>
    /\ calls = [c \in AllCallers |-> IdleCall]
    /\ store = <<>>
    /\ SearchIdle

CallSummarize ==
    /\ pureOut = <<>>
    /\ pureOut' = <<[op |-> "summarize",
                     out |-> summarize(pureIn.text, pureIn.numSentences)]>>
    /\ UNCHANGED <<pureIn, tokVars, rankVars, embedVars, searchVars>>

CallSummarizeWithPositionBias ==
    /\ pureOut = <<>>
    /\ pureOut' = <<[op |-> "summarizeWithPositionBias",
                     out |-> summarizeWithPositionBias(pureIn.text, pureIn.numSentences)]>>
    /\ UNCHANGED <<pureIn, tokVars, rankVars, embedVars, searchVars>>

NextSum == CallSummarize \/ CallSummarizeWithPositionBias

SpecSum == InitSum /\ [][NextSum]_vars

(***************************************************************************)
(* SpecKey: extractKeySentences() applied to one text.  A text is up to    *)
(* MaxKeyUnits units, each followed by the same separator.                 *)
(***************************************************************************)
MaxKeyUnits == 3

KeyUnits ==
    { <<"A", "b", "b", "a", " ", "b", "a", "d", " ", "c", "a", "b">>,
      <<"a", " ", "n", "o", "t", "e", " ", "t", "o", " ", "d", "o", " ", "s", "o">>,
      <<"A", "b", "b", "a", " ", "n", "o", "t", "e", " ", "t", "o", " ", "d", "o", " ", "s", "o">>,
      <<"b", "a", "d", " ", "c", "a", "b", " ", "d", "o", "e", "s">>,
      <<"S", "o">> }

KeySeparators == { <<".", " ">>, <<"?", "!">>, <<" ">> }

KeyTexts ==
    UNION { { Concat([k \in 1..n |-> units[k] \o sep]) :
                units \in [1..n -> KeyUnits], sep \in KeySeparators } :
            n \in 0..MaxKeyUnits }

InitKey ==
    /\ pureIn \in [text : KeyTexts, maxSentences : 0..MaxKeyUnits]
    /\ pureOut = <<>>
    /\ tokText = <<>>
    /\ tokOut = <<>>
    /\ rankIn = <<>>
    /\ rankOut = <<>>
    /\ platform = "android"
    /\ session = NULL
    /\ sessionLoading = NULL
    /\ loads = <<>>
    /\ calls = [c \in AllCallers |-> IdleCall]
    /\ store = <<>>
    /\ SearchIdle

CallExtractKeySentences ==
    /\ pureOut = <<>>
    /\ pureOut' = <<[op |-> "extractKeySentences",
                     out |-> extractKeySentences(pureIn.text, pureIn.maxSentences)]>>
    /\ UNCHANGED <<pureIn, tokVars, rankVars, embedVars, searchVars>>

NextKey == CallExtractKeySentences

SpecKey == InitKey /\ [][NextKey]_vars

(***************************************************************************)
(* SpecCtx: buildContext() applied to one list of results                  *)
(***************************************************************************)
CtxTexts ==
    { <<"S", "o", ".">>,
      <<"b", "a", "d", " ", "c", "a", "b", " ", "d", "o", "e", "s", ".", " ",
        "A", "b", "b", "a", " ", "n", "o", "t", "e", " ", "t", "o", " ", "d", "o", " ",
        "s", "o", "!", " ",
        "a", " ", "n", "o", "t", "e", " ", "t", "o", " ", "d", "o", " ", "s", "o", ".">> }

CtxSims == {Tenths(3), Tenths(5), Tenths(7), Tenths(8)}

CtxInputs ==
    UNION { { [i \in 1..n |-> [note |-> [id |-> i, text |-> t[i]], similarity |-> sim[i]]] :
                t \in [1..n -> CtxTexts], sim \in [1..n -> CtxSims] } : n \in 0..MaxList }

InitCtx ==
    /\ pureIn \in [results : CtxInputs, k : -1..MaxK]
    /\ pureOut = <<>>
    /\ tokText = <<>>
    /\ tokOut = <<>>
    /\ rankIn = <<>>
    /\ rankOut = <<>>
    /\ platform = "android"
    /\ session = NULL
    /\ sessionLoading = NULL
    /\ loads = <<>>
    /\ calls = [c \in AllCallers |-> IdleCall]
    /\ store = <<>>
    /\ SearchIdle

CallBuildContext ==
    /\ pureOut = <<>>
    /\ pureOut' = <<[op |-> "buildContext", out |-> buildContext(pureIn.results, pureIn.k)]>>
    /\ UNCHANGED <<pureIn, tokVars, rankVars, embedVars, searchVars>>

NextCtx == CallBuildContext

SpecCtx == InitCtx /\ [][NextCtx]_vars

(***************************************************************************)
(* SpecVec: one call of a vector function on two vectors, or of a retrieve *)
(* function's scoring on a query vector and two notes.                     *)
(***************************************************************************)
Vectors ==
    { <<>>, <<0>>, <<5>>, <<0, 0>>, <<3, 4>>, <<-4, 3>>, <<-3, -4>>, <<0, 0, 0>> }

\* two stored notes, the older one with a vector of the query's length
VecNotes(vecA, vecB) ==
    << [id |-> 2, text |-> <<"c", "a", "b", " ", "d", "e", "e">>,
        embedding |-> vecB, timestamp |-> 2],
       [id |-> 1, text |-> <<"C", "a", "b", "s">>,
        embedding |-> vecA, timestamp |-> 1] >>

RetrieveOps == {"retrieveNotes", "retrieveNotesHybrid", "retrieveNotesStrict"}

InitVec ==
    /\ pureIn \in [vecA : Vectors, vecB : Vectors]
    /\ pureOut = <<>>
    /\ tokText = <<>>
    /\ tokOut = <<>>
    /\ rankIn = <<>>
    /\ rankOut = <<>>
    /\ platform = "android"
    /\ session = NULL
    /\ sessionLoading = NULL
    /\ loads = <<>>
    /\ calls = [c \in AllCallers |-> IdleCall]
    /\ store = <<>>
    /\ SearchIdle

CallDotProduct ==
    /\ pureOut = <<>>
    /\ LET r == dotProduct(pureIn.vecA, pureIn.vecB)
       IN  pureOut' = <<[op |-> "dotProduct", ok |-> r.ok, value |-> r.value]>>
    /\ UNCHANGED <<pureIn, tokVars, rankVars, embedVars, searchVars>>

CallCosineSimilarity ==
    /\ pureOut = <<>>
    /\ LET r == cosineSimilarity(pureIn.vecA, pureIn.vecB)
       IN  pureOut' = <<[op |-> "cosineSimilarity", ok |-> r.ok, value |-> r.value]>>
    /\ UNCHANGED <<pureIn, tokVars, rankVars, embedVars, searchVars>>

CallL2Normalize ==
    /\ pureOut = <<>>
    /\ pureOut' = <<[op |-> "l2Normalize", ok |-> TRUE, value |-> l2Normalize(pureIn.vecA)]>>
    /\ UNCHANGED <<pureIn, tokVars, rankVars, embedVars, searchVars>>

\* a retrieve function from its second await on: the query vector is vecA
CallRetrieveScoring ==
    /\ pureOut = <<>>
    /\ \E op \in RetrieveOps :
          LET call == [IdleCall EXCEPT !.op = op, !.query = <<"c", "a", "b">>,
                                       !.param = IF op = "retrieveNotesHybrid" THEN 6
                                                 ELSE Tenths(2),
                                       !.embedding = <<pureIn.vecA>>]
              r == retrieveFrom(call, VecNotes(pureIn.vecA, pureIn.vecB))
          IN  pureOut' = <<[op |-> op, ok |-> r.ok, value |-> r.value]>>
    /\ UNCHANGED <<pureIn, tokVars, rankVars, embedVars, searchVars>>

NextVec ==
    \/ CallDotProduct
    \/ CallCosineSimilarity
    \/ CallL2Normalize
    \/ CallRetrieveScoring

SpecVec == InitVec /\ [][NextVec]_vars

(***************************************************************************)
(* Claims                                                                  *)
(***************************************************************************)
LoadsInFlight == {p \in 1..Len(loads) : InFlight(p)}

IsRetrieve(op) == op \in {"retrieveNotes", "retrieveNotesHybrid", "retrieveNotesStrict"}

\* C1 (SpecLoad): single-flight load.  At most one load attempt is in flight
\* at any time, and every caller waiting on a load that is still pending
\* waits on the one promise held in sessionLoading.
SingleFlightLoad ==
    /\ Cardinality(LoadsInFlight) <= 1
    /\ \A c \in AllCallers :
          (/\ calls[c].pc = "awaitLoad"
           /\ calls[c].awaiting # NULL
           /\ InFlight(calls[c].awaiting))
          => calls[c].awaiting = sessionLoading

\* C1 witness: two callers wait on the same pending load
TwoCallersShareLoad ==
    \E c1, c2 \in AllCallers :
        /\ c1 # c2
        /\ calls[c1].pc = "awaitLoad"
        /\ calls[c2].pc = "awaitLoad"
        /\ calls[c1].awaiting = sessionLoading
        /\ calls[c2].awaiting = sessionLoading
        /\ sessionLoading # NULL
        /\ InFlight(sessionLoading)

\* C2 (SpecLoad): retry after failure.  The step in which a load attempt fails
\* leaves sessionLoading and session null; a call that reaches loadModel with
\* both null starts a new load attempt, and no call is ever handed a promise
\* that has already rejected.
RetryAfterFailure ==
    [][ /\ \A p \in 1..Len(loads) :
              (InFlight(p) /\ loads'[p] = "rejected")
              => (sessionLoading' = NULL /\ session' = NULL)
        /\ \A c \in AllCallers :
              (calls[c].pc = "idle" /\ calls'[c].pc = "awaitLoad")
              => /\ (session = NULL /\ sessionLoading = NULL)
                    => (/\ Len(loads') = Len(loads) + 1
                        /\ calls'[c].awaiting = Len(loads')
                        /\ sessionLoading' = Len(loads')
                        /\ Pending(loads'[Len(loads')]))
                 /\ calls'[c].awaiting # NULL => loads'[calls'[c].awaiting] # "rejected"
      ]_vars

\* C2 witness: a load attempt has failed and a later one is under way
LoadRetried ==
    \E p, q \in 1..Len(loads) :
        p < q /\ loads[p] = "rejected" /\ InFlight(q) /\ sessionLoading = q

\* C3 (SpecLoad): cached on success.  At most one load ever succeeds; once one
\* has, session is non-null, keeps its value in every later step, no further
\* load is started, and every inference runs on that session.
CachedOnSuccess ==
    /\ [](/\ Cardinality({p \in 1..Len(loads) : loads[p] = "resolved"}) <= 1
          /\ (\E p \in 1..Len(loads) : loads[p] = "resolved") => session # NULL
          /\ \A c \in AllCallers : calls[c].pc = "awaitRun" => calls[c].model = session)
    /\ [][session # NULL => (session' = session /\ loads' = loads)]_vars

\* C3 witness: a call made after the load succeeded runs on the cached session,
\* an earlier load attempt having failed
CacheReused ==
    \E c \in AllCallers :
        /\ calls[c].pc = "awaitRun"
        /\ calls[c].awaiting = NULL
        /\ calls[c].model = session
        /\ \E p \in 1..Len(loads) : loads[p] = "rejected"

\* C4 (SpecTok): tokenizer length invariant, as claimed.  input_ids and
\* attention_mask both have length exactly MAX_LENGTH, and the token sequence
\* before padding does not exceed MAX_LENGTH.
TokenizeLengthIsMaxLength ==
    tokOut # <<>> =>
        /\ Len(tokOut[1].input_ids) = MAX_LENGTH
        /\ Len(tokOut[1].attention_mask) = MAX_LENGTH
        /\ Len(tokenizeTokens(tokText)) <= MAX_LENGTH

\* C5 (SpecTok): tokenizer padding invariant.  Every position whose
\* attention_mask is 0 holds the id of [PAD].
PaddingHoldsPadId ==
    tokOut # <<>> =>
        \A i \in 1..Len(tokOut[1].attention_mask) :
            tokOut[1].attention_mask[i] = 0 => tokOut[1].input_ids[i] = VocabId(PAD_TOKEN)

\* C5 witness: an output with real tokens of a word and with padding
PaddedOutput ==
    /\ tokOut # <<>>
    /\ Len(tokText) > 0
    /\ \E i \in 1..Len(tokOut[1].attention_mask) :
          /\ tokOut[1].attention_mask[i] = 0
          /\ i > 3

\* C6 (SpecRetr): empty corpus, as claimed.  Whenever the store holds no notes,
\* a retrieve* call returns the empty list and raises no error.
EmptyStoreReturnsEmpty ==
    \A c \in AllCallers :
        (/\ IsRetrieve(calls[c].op)
         /\ calls[c].pc \in {"resolved", "rejected"}
         /\ store = <<>>)
        => (calls[c].pc = "resolved" /\ calls[c].value = << <<>> >>)

\* C6, amended: whenever the query embedding has succeeded and getAllNotes
\* has returned no notes, the retrieve* call returns the empty list and raises
\* no error.
EmptySnapshotReturnsEmpty ==
    \A c \in AllCallers :
        (/\ IsRetrieve(calls[c].op)
         /\ calls[c].embedding # <<>>
         /\ calls[c].notes = << <<>> >>)
        => (calls[c].pc = "resolved" /\ calls[c].value = << <<>> >>)

\* C6 witness: a strict retrieval got no notes from getAllNotes and returned []
StrictOverEmptyStore ==
    \E c \in AllCallers :
        /\ calls[c].op = "retrieveNotesStrict"
        /\ calls[c].notes = << <<>> >>
        /\ calls[c].pc = "resolved"

\* the ranking call recorded in rankOut
RankCall == rankOut[1]

Min(a, b) == IF a < b THEN a ELSE b

\* C7 (SpecRank): topK.  [] for k <= 0; otherwise min(k, |list|) elements of
\* the list, the first ones of sortBySimilarity(list): scores non-increasing,
\* equal scores in input order, and no element left out that belongs before
\* one that was returned.
TopKIsSortedPrefix ==
    (rankOut # <<>> /\ RankCall.op = "topK") =>
        LET out == RankCall.out
            k == RankCall.k
            n == Len(rankIn)
            Ahead(a, b) == \/ a.similarity > b.similarity
                           \/ a.similarity = b.similarity /\ a.note.id < b.note.id
            returned == {out[i].note.id : i \in 1..Len(out)}
        IN  IF k <= 0 THEN out = <<>>
            ELSE /\ Len(out) = Min(k, n)
                 /\ out = SubSeq(sortBySimilarity(rankIn), 1, Min(k, n))
                 /\ \A i \in 1..Len(out) : out[i] = rankIn[out[i].note.id]
                 /\ \A i \in 1..(Len(out) - 1) : Ahead(out[i], out[i + 1])
                 /\ \A j \in (1..n) \ returned :
                       \A i \in 1..Len(out) : Ahead(out[i], rankIn[j])

\* C7 witness: topK cut a list between two results of equal score
TopKCutsTie ==
    /\ rankOut # <<>>
    /\ RankCall.op = "topK"
    /\ RankCall.k > 0
    /\ Len(RankCall.out) = RankCall.k
    /\ Len(RankCall.out) >= 2
    /\ RankCall.out[Len(RankCall.out) - 1].similarity
           = RankCall.out[Len(RankCall.out)].similarity
    /\ \E j \in 1..Len(rankIn) :
          /\ rankIn[j].similarity = RankCall.out[Len(RankCall.out)].similarity
          /\ \A i \in 1..Len(RankCall.out) : RankCall.out[i].note.id # j

\* C8 (SpecRank): topKWithThreshold never returns an item whose score is below
\* minSimilarity.
ThresholdRespected ==
    (rankOut # <<>> /\ RankCall.op = "topKWithThreshold") =>
        \A i \in 1..Len(RankCall.out) :
            RankCall.out[i].similarity >= RankCall.minSimilarity

\* C8 witness: a call that returned something and dropped a result below the
\* threshold although k had room for it
ThresholdDropped ==
    /\ rankOut # <<>>
    /\ RankCall.op = "topKWithThreshold"
    /\ Len(RankCall.out) >= 1
    /\ Len(RankCall.out) < RankCall.k
    /\ \E j \in 1..Len(rankIn) : rankIn[j].similarity < RankCall.minSimilarity

\* C9 (SpecRank): mmrRank(list, k, lambda = 1) returns the same items in the
\* same order as topK(list, k), ties, k <= 0 and the empty list included.
MmrLambdaOneIsTopK ==
    (rankOut # <<>> /\ RankCall.op = "mmrRank" /\ RankCall.lambda = 10) =>
        RankCall.out = topK(rankIn, RankCall.k)

\* C9 witness: mmrRank with lambda = 1 returned results of equal score whose
\* texts differ
MmrLambdaOneWithTie ==
    /\ rankOut # <<>>
    /\ RankCall.op = "mmrRank"
    /\ RankCall.lambda = 10
    /\ Len(RankCall.out) >= 2
    /\ \E i \in 1..(Len(RankCall.out) - 1) :
          /\ RankCall.out[i].similarity = RankCall.out[i + 1].similarity
          /\ RankCall.out[i].note.text # RankCall.out[i + 1].note.text

\* C10 (SpecRetr): for the same query embedding and the same notes,
\* retrieveNotesHybrid(query, 1.0) returns what retrieveNotes(query) returns:
\* the same notes in the same order with the same scores, or fails as it does.
HybridWeightOneIsPlain ==
    \A c \in AllCallers :
        (/\ calls[c].op = "retrieveNotesHybrid"
         /\ calls[c].param = 10
         /\ calls[c].notes # <<>>)
        => LET plain == retrieveNotesFrom(calls[c].embedding[1], calls[c].notes[1])
           IN  /\ plain.ok <=> calls[c].pc = "resolved"
               /\ plain.ok => calls[c].value = <<plain.value>>

\* C10 witness: a hybrid retrieval with weight 1.0 over notes of different
\* scores, one of which shares a keyword with the query and one of which does not
HybridWeightOneRanked ==
    \E c \in AllCallers :
        /\ calls[c].op = "retrieveNotesHybrid"
        /\ calls[c].param = 10
        /\ calls[c].pc = "resolved"
        /\ LET out == calls[c].value[1]
               kw(i) == keywordOverlapScore(extractKeywords(calls[c].query), out[i].note.text)
           IN  \E i, j \in 1..Len(out) :
                  /\ out[i].similarity > out[j].similarity
                  /\ out[j].similarity > 0
                  /\ kw(i) = 0
                  /\ kw(j) > 0

\* the results of retrieveNotesHybrid(query, 0.5) for the embedding and the
\* notes a call has got
HybridHalf(call) ==
    retrieveNotesHybridFrom(call.query, 5, call.embedding[1], call.notes[1])

\* text contains a keyword of the query, letter case aside
ContainsQueryKeyword(query, text) ==
    \E keyword \in extractKeywords(query) :
        \E from \in 1..Len(text) :
            /\ from + Len(keyword) - 1 <= Len(text)
            /\ \A i \in 1..Len(keyword) :
                  LowerOf(text[from + i - 1]) = keyword[i]

\* C11 (SpecRetr): retrieveNotesStrict(query, minScore) returns the items of
\* retrieveNotesHybrid(query, 0.5) that contain a query keyword as a
\* case-insensitive substring and have hybrid score >= minScore: none that
\* violates a condition, none that meets both left out, relative order kept.
StrictIsFilteredHybrid ==
    \A c \in AllCallers :
        (/\ calls[c].op = "retrieveNotesStrict"
         /\ calls[c].notes # <<>>
         /\ HybridHalf(calls[c]).ok)
        => /\ calls[c].pc = "resolved"
           /\ LET out == calls[c].value[1]
                  hyb == HybridHalf(calls[c]).value
                  Meets(r) == /\ ContainsQueryKeyword(calls[c].query, r.note.text)
                              /\ r.similarity >= calls[c].param
                  At(i) == CHOOSE h \in 1..Len(hyb) : hyb[h] = out[i]
              IN  /\ \A i \in 1..Len(out) :
                        /\ \E h \in 1..Len(hyb) : hyb[h] = out[i]
                        /\ Meets(out[i])
                  /\ \A h \in 1..Len(hyb) :
                        Meets(hyb[h]) => \E i \in 1..Len(out) : out[i] = hyb[h]
                  /\ \A i, j \in 1..Len(out) : i < j => At(i) < At(j)

\* C11 witness: a strict retrieval kept one item and dropped another that
\* contains a query keyword but scores below minScore
StrictKeptAndDropped ==
    \E c \in AllCallers :
        /\ calls[c].op = "retrieveNotesStrict"
        /\ calls[c].pc = "resolved"
        /\ Len(calls[c].value[1]) >= 1
        /\ \E h \in 1..Len(HybridHalf(calls[c]).value) :
              LET r == HybridHalf(calls[c]).value[h]
              IN  /\ ContainsQueryKeyword(calls[c].query, r.note.text)
                  /\ r.similarity < calls[c].param

\* the position before sentence k in the sentences joined by single spaces
RECURSIVE JoinedStart(_, _)
JoinedStart(sentences, k) ==
    IF k = 1 THEN 0 ELSE JoinedStart(sentences, k - 1) + Len(sentences[k - 1]) + 1

\* C12 (SpecSum): when the text splits into at least one and at most
\* numSentences sentences, summarize returns all of them, each unmodified, in
\* original order, joined by single spaces.
SummarizeKeepsFewSentences ==
    (pureOut # <<>> /\ pureOut[1].op = "summarize") =>
        LET sentences == splitIntoSentences(pureIn.text)
            n == Len(sentences)
            out == pureOut[1].out
        IN  (1 <= n /\ n <= pureIn.numSentences) =>
                /\ Len(out) = JoinedStart(sentences, n) + Len(sentences[n])
                /\ \A k \in 1..n :
                      SubSeq(out, JoinedStart(sentences, k) + 1,
                                  JoinedStart(sentences, k) + Len(sentences[k]))
                          = sentences[k]
                /\ \A k \in 2..n : out[JoinedStart(sentences, k)] = " "

\* C12 witness: a text of exactly numSentences sentences, two or more, written
\* with a longer separator and a fragment that is dropped
SummarizeKeptAll ==
    /\ pureOut # <<>>
    /\ pureOut[1].op = "summarize"
    /\ Len(splitIntoSentences(pureIn.text)) = pureIn.numSentences
    /\ pureIn.numSentences >= 2
    /\ Len(pureOut[1].out) + 2 < Len(trim(pureIn.text))

\* a vector of zero norm
IsZeroVector(vec) == \A i \in 1..Len(vec) : vec[i] = 0

\* C13 (SpecVec): degenerate vectors are handled without error.  For vectors of
\* equal length cosineSimilarity returns 0 whenever one of them has zero norm,
\* and l2Normalize of a zero vector returns a zero vector of the same length.
DegenerateVectorsHandled ==
    pureOut # <<>> =>
        /\ (/\ pureOut[1].op = "cosineSimilarity"
            /\ Len(pureIn.vecA) = Len(pureIn.vecB)
            /\ (IsZeroVector(pureIn.vecA) \/ IsZeroVector(pureIn.vecB)))
           => (pureOut[1].ok /\ pureOut[1].value = 0)
        /\ (pureOut[1].op = "l2Normalize" /\ IsZeroVector(pureIn.vecA))
           => /\ pureOut[1].ok
              /\ Len(pureOut[1].value) = Len(pureIn.vecA)
              /\ IsZeroVector(pureOut[1].value)

\* C13 witness: the cosine of a zero vector and a non-zero vector of its length
CosineOfZeroVector ==
    /\ pureOut # <<>>
    /\ pureOut[1].op = "cosineSimilarity"
    /\ Len(pureIn.vecA) = 2
    /\ Len(pureIn.vecB) = 2
    /\ IsZeroVector(pureIn.vecA)
    /\ ~IsZeroVector(pureIn.vecB)
    /\ pureOut[1].ok

\* C14 (SpecVec): dotProduct and cosineSimilarity fail whenever the lengths of
\* their arguments differ, a zero vector among them or not, and a retrieve
\* call fails when a stored note's vector has another length than the query's.
LengthMismatchFails ==
    pureOut # <<>> =>
        /\ (/\ pureOut[1].op \in {"dotProduct", "cosineSimilarity"}
            /\ Len(pureIn.vecA) # Len(pureIn.vecB))
           => ~pureOut[1].ok
        /\ (/\ pureOut[1].op \in RetrieveOps
            /\ Len(pureIn.vecA) # Len(pureIn.vecB))
           => ~pureOut[1].ok

\* C14 witness: the cosine of a zero vector and a vector of another length failed
MismatchWithZeroVector ==
    /\ pureOut # <<>>
    /\ pureOut[1].op = "cosineSimilarity"
    /\ IsZeroVector(pureIn.vecA)
    /\ Len(pureIn.vecA) > 0
    /\ Len(pureIn.vecB) > Len(pureIn.vecA)
    /\ ~pureOut[1].ok

\* the load a call awaited has failed, and the call has been told
LoadFailedFor(call) ==
    /\ call.awaiting # NULL
    /\ loads[call.awaiting] = "rejected"
    /\ call.pc # "awaitLoad"

\* C15 (SpecRetr): no silent swallowing.  When the model load fails, model.run
\* throws or the engine returns no output tensor, embedText rejects and never
\* yields a vector, and a retrieve* call rejects in turn: it reads no notes and
\* returns no list.
FailuresPropagate ==
    \A c \in AllCallers :
        (calls[c].failure # "none" \/ LoadFailedFor(calls[c]))
        => /\ calls[c].pc = "rejected"
           /\ calls[c].embedding = <<>>
           /\ calls[c].notes = <<>>
           /\ calls[c].value = <<>>

\* C15 witness: a retrieve* call rejected because the engine returned no output
\* tensor, on a session whose load had succeeded
RetrieveRejectedOnNoOutput ==
    \E c \in AllCallers :
        /\ IsRetrieve(calls[c].op)
        /\ calls[c].failure = "noOutput"
        /\ calls[c].pc = "rejected"
        /\ session # NULL

\* C16 (SpecLoadFair): completion.  Every embedText call eventually resolves
\* or rejects, and every caller awaiting a load that has failed is eventually
\* rejected.
EmbedTextCompletes ==
    \A c \in LoadCallers :
        /\ (calls[c].op = "embedText" /\ calls[c].pc \in {"awaitLoad", "awaitRun"})
               ~> (calls[c].pc \in {"resolved", "rejected"})
        /\ (/\ calls[c].pc = "awaitLoad"
            /\ calls[c].awaiting # NULL
            /\ loads[calls[c].awaiting] = "rejected")
               ~> (calls[c].pc = "rejected")

\* C16 witness: two callers of embedText that awaited the same load have both
\* been rejected by its failure
SharedLoadRejectedBoth ==
    \E c1, c2 \in LoadCallers :
        /\ c1 # c2
        /\ calls[c1].op = "embedText"
        /\ calls[c2].op = "embedText"
        /\ calls[c1].awaiting # NULL
        /\ calls[c1].awaiting = calls[c2].awaiting
        /\ calls[c1].pc = "rejected"
        /\ calls[c2].pc = "rejected"
        /\ calls[c1].failure = "load"
        /\ calls[c2].failure = "load"

\* C17 (SpecRank): purity of ranking.  After sortBySimilarity, topK,
\* topKWithThreshold or mmrRank has returned, the caller's list holds the same
\* elements in the same order as when it was passed.
RankingLeavesInput ==
    rankOut # <<>> => rankIn = RankCall.given

\* C17 witness: mmrRank selected some but not all elements of a list that was
\* not in descending order, so that it sorted and spliced
MmrSortedAndSpliced ==
    /\ rankOut # <<>>
    /\ RankCall.op = "mmrRank"
    /\ Len(RankCall.out) >= 1
    /\ Len(RankCall.out) < Len(RankCall.given)
    /\ sortBySimilarity(RankCall.given) # RankCall.given

\* C18 (SpecRetr): retrieval ordering.  A retrieve* call calls getAllNotes at
\* most once and only after its query embedding has completed, never when the
\* embedding failed; what it returns is computed from the notes that call of
\* getAllNotes returned, which are the table as it was then.
RetrievalOrdering ==
    /\ [](\A c \in AllCallers :
            IsRetrieve(calls[c].op) =>
                /\ calls[c].reads \in {0, 1}
                /\ calls[c].reads = 1 => calls[c].embedding # <<>>
                /\ calls[c].embedding = <<>> => (calls[c].reads = 0 /\ calls[c].notes = <<>>)
                /\ calls[c].notes # <<>> => calls[c].reads = 1
                /\ calls[c].pc = "resolved" =>
                      /\ calls[c].notes # <<>>
                      /\ calls[c].value = <<retrieveFrom(calls[c], calls[c].notes[1]).value>>
                      /\ \A i \in 1..Len(calls[c].value[1]) :
                            \E n \in 1..Len(calls[c].notes[1]) :
                                calls[c].value[1][i].note = calls[c].notes[1][n])
    /\ [][\A c \in AllCallers :
            (calls[c].pc = "awaitNotes" /\ calls'[c].pc # "awaitNotes")
            => calls'[c].notes = <<store>>]_vars

\* C18 witness: a retrieve* call has returned results of the notes it read,
\* and a note saved since is not among them
SnapshotOlderThanStore ==
    \E c \in AllCallers :
        /\ IsRetrieve(calls[c].op)
        /\ calls[c].pc = "resolved"
        /\ Len(calls[c].value[1]) >= 1
        /\ Len(store) > Len(calls[c].notes[1])

\* the words of a text, as runs of non-whitespace characters of the cleaned text
WordsOfText(text) == SelectSeq(splitWhitespace(cleanText(text)), NonEmpty)

\* the ids at the positions whose attention_mask is 1
RealIds(out) ==
    LET n == Cardinality({i \in 1..Len(out.attention_mask) : out.attention_mask[i] = 1})
    IN  SubSeq(out.input_ids, 1, n)

\* input_ids[0] is the id of [CLS], the mask is 1s followed only by 0s, and
\* the last position with mask 1 holds the id of [SEP]
FramedByClsAndSep(out) ==
    LET mask == out.attention_mask
        ones == {i \in 1..Len(mask) : mask[i] = 1}
    IN  /\ Len(out.input_ids) >= 1
        /\ out.input_ids[1] = VocabId(CLS_TOKEN)
        /\ \A i \in 1..Len(mask) : mask[i] \in {0, 1}
        /\ \A i, j \in 1..Len(mask) : (i < j /\ mask[i] = 0) => mask[j] = 0
        /\ ones # {}
        /\ \A i \in ones : (\A j \in ones : j <= i) => out.input_ids[i] = VocabId(SEP_TOKEN)

\* [CLS], the words in order, [SEP], as ids
ClsWordsSep(words) ==
    <<VocabId(CLS_TOKEN)>> \o [i \in 1..Len(words) |-> VocabId(words[i])]
        \o <<VocabId(SEP_TOKEN)>>

\* C19 (SpecTok): encoding shape, as claimed.  The first id is the id of
\* [CLS], attention_mask is a run of 1s followed only by 0s, the last position
\* with mask 1 holds the id of [SEP]; for empty or whitespace-only text the
\* real tokens are exactly [CLS],[SEP]; for text whose words are all whole
\* vocabulary entries they are [CLS], the words in order, [SEP].
EncodingShapeAnyLength ==
    tokOut # <<>> =>
        LET words == WordsOfText(tokText)
        IN  /\ FramedByClsAndSep(tokOut[1])
            /\ (\A i \in 1..Len(tokText) : IsSpace(tokText[i])) =>
                   RealIds(tokOut[1]) = <<VocabId(CLS_TOKEN), VocabId(SEP_TOKEN)>>
            /\ (\A i \in 1..Len(words) : IsVocabEntry(words[i])) =>
                   RealIds(tokOut[1]) = ClsWordsSep(words)

\* C19 (SpecTok): encoding shape, amended.  As above, with the last part
\* for texts of at most MAX_LENGTH - 2 words: of a longer text of vocabulary
\* words only the first MAX_LENGTH - 2 words stand between [CLS] and [SEP].
EncodingShape ==
    tokOut # <<>> =>
        LET words == WordsOfText(tokText)
            kept == IF Len(words) > MAX_LENGTH - 2 THEN MAX_LENGTH - 2 ELSE Len(words)
        IN  /\ FramedByClsAndSep(tokOut[1])
            /\ (\A i \in 1..Len(tokText) : IsSpace(tokText[i])) =>
                   RealIds(tokOut[1]) = <<VocabId(CLS_TOKEN), VocabId(SEP_TOKEN)>>
            /\ (\A i \in 1..Len(words) : IsVocabEntry(words[i])) =>
                   RealIds(tokOut[1]) = ClsWordsSep(SubSeq(words, 1, kept))

\* C19 witness: a text of exactly MAX_LENGTH - 2 vocabulary words, encoded
\* with no padding
FullLengthOfVocabularyWords ==
    /\ tokOut # <<>>
    /\ Len(WordsOfText(tokText)) = MAX_LENGTH - 2
    /\ \A i \in 1..Len(WordsOfText(tokText)) : IsVocabEntry(WordsOfText(tokText)[i])
    /\ RealIds(tokOut[1]) = tokOut[1].input_ids

\* the candidate looked up for word[start, end): marked with ## past offset 0
Candidate(word, start, end) ==
    IF start > 0 THEN <<"#", "#">> \o SubSeq(word, start + 1, end)
    ELSE SubSeq(word, start + 1, end)

\* the ends of the prefixes of the remaining suffix that are vocabulary entries
EntryEnds(word, start) ==
    {end \in (start + 1)..Len(word) : IsVocabEntry(Candidate(word, start, end))}

\* the characters of the word a token stands for
ConsumedBy(tokens, i) ==
    IF tokens[i] = UNK_TOKEN THEN 1
    ELSE IF i > 1 THEN Len(tokens[i]) - 2
    ELSE Len(tokens[i])

RECURSIVE ConsumedUpTo(_, _)
ConsumedUpTo(tokens, n) ==
    IF n = 0 THEN 0 ELSE ConsumedUpTo(tokens, n - 1) + ConsumedBy(tokens, n)

\* C20 (SpecWordFair): wordPieceTokenize, as claimed.  The call returns for
\* every word; every pass emits, at the current offset, the longest
\* vocabulary entry that is a prefix of the remaining suffix (looked up with
\* ## past offset 0) and advances past it, or [UNK] advancing exactly one
\* character when no prefix is an entry; every emitted token is a vocabulary
\* entry or [UNK]; the consumed lengths sum to the length of the word.
WordPieceGreedyOverVocabulary ==
    /\ <>(pureOut # <<>> /\ pureOut[1].returned)
    /\ [][(pureOut # <<>> /\ pureOut'[1].tokens # pureOut[1].tokens) =>
            LET word == pureIn.word
                start == pureOut[1].start
                ends == EntryEnds(word, start)
                token == pureOut'[1].tokens[Len(pureOut'[1].tokens)]
            IN  /\ Len(pureOut'[1].tokens) = Len(pureOut[1].tokens) + 1
                /\ SubSeq(pureOut'[1].tokens, 1, Len(pureOut[1].tokens)) = pureOut[1].tokens
                /\ IF ends = {}
                   THEN token = UNK_TOKEN /\ pureOut'[1].start = start + 1
                   ELSE /\ pureOut'[1].start \in ends
                        /\ \A end \in ends : end <= pureOut'[1].start
                        /\ token = Candidate(word, start, pureOut'[1].start)]_vars
    /\ [](pureOut # <<>> =>
            /\ \A i \in 1..Len(pureOut[1].tokens) :
                   IsVocabEntry(pureOut[1].tokens[i]) \/ pureOut[1].tokens[i] = UNK_TOKEN
            /\ pureOut[1].returned =>
                   /\ pureOut[1].tokens = wordPieceTokenize(pureIn.word)
                   /\ ConsumedUpTo(pureOut[1].tokens, Len(pureOut[1].tokens))
                          = Len(pureIn.word))

\* 1 - the least textOverlap with a selected result; 1 when none is selected
LeastOverlapDiversity(text, selected) ==
    IF selected = <<>> THEN Frac(1, 1)
    ELSE LET overlaps == {textOverlap(text, selected[i].note.text) : i \in 1..Len(selected)}
             least == CHOOSE f \in overlaps : \A g \in overlaps : ~FracLess(g, f)
         IN  Frac(least.d - least.n, least.d)

\* lambda * score + (1 - lambda) * diversity, in units of 1/(10 * ScoreDen)
MmrValue(x, selected, lambda) ==
    LET diversity == LeastOverlapDiversity(x.note.text, selected)
    IN  Frac(lambda * x.similarity * diversity.d + (10 - lambda) * diversity.n * ScoreDen,
             diversity.d)

\* the position of x in the list in descending-score order
SortedPosition(x, results) ==
    CHOOSE i \in 1..Len(results) : sortBySimilarity(results)[i] = x

\* C21 (SpecMmr): mmrRank(list, k, lambda) terminates: every pass of its loop
\* takes one candidate from remaining, which holds the items of the list not
\* yet selected, and a pass runs only while remaining is not empty.  For
\* k > 0 it returns min(k, |list|) items, each a distinct element of the
\* list.  Every pass moves to selected the candidate whose lambda * score +
\* (1 - lambda) * diversity is highest, diversity being 1 - the least
\* textOverlap with a selected item (1 when none is selected), and among the
\* candidates of highest value the earliest in descending-score order.
MmrGreedySelection ==
    /\ [](pureOut # <<>> /\ pureIn.k > 0 /\ pureIn.results # <<>> =>
            Len(pureOut[1].selected) + Len(pureOut[1].remaining) = Len(pureIn.results))
    /\ [](pureOut # <<>> /\ pureOut[1].returned /\ pureIn.k > 0 =>
            LET out == pureOut[1].selected
            IN  /\ out = mmrRank(pureIn.results, pureIn.k, pureIn.lambda)
                /\ Len(out) = Min(pureIn.k, Len(pureIn.results))
                /\ \A i \in 1..Len(out) :
                       \E j \in 1..Len(pureIn.results) : out[i] = pureIn.results[j]
                /\ \A i, j \in 1..Len(out) : i # j => out[i] # out[j])
    /\ [][(pureOut # <<>> /\ ~pureOut[1].returned /\ ~pureOut'[1].returned) =>
            LET results == pureIn.results
                selected == pureOut[1].selected
                lambda == pureIn.lambda
                rest == {results[j] : j \in 1..Len(results)}
                            \ {selected[i] : i \in 1..Len(selected)}
                moved == pureOut'[1].selected[Len(pureOut'[1].selected)]
            IN  /\ Len(pureOut[1].remaining) > 0
                /\ Len(pureOut'[1].remaining) = Len(pureOut[1].remaining) - 1
                /\ pureOut'[1].selected = Append(selected, moved)
                /\ moved \in rest
                /\ \A y \in rest :
                       /\ ~FracLess(MmrValue(moved, selected, lambda),
                                    MmrValue(y, selected, lambda))
                       /\ SortedPosition(y, results) < SortedPosition(moved, results) =>
                              FracLess(MmrValue(y, selected, lambda),
                                       MmrValue(moved, selected, lambda))]_vars

\* C21 witness: with two items selected and two candidates left, the third
\* pass took the candidate of lower score for its diversity, its overlaps with
\* the two selected items differing
MmrDiversityDecided ==
    /\ pureOut # <<>>
    /\ pureOut[1].returned
    /\ Len(pureIn.results) = 4
    /\ Len(pureOut[1].selected) = 3
    /\ Len(pureOut[1].remaining) = 1
    /\ pureOut[1].remaining[1].similarity > pureOut[1].selected[3].similarity
    /\ textOverlap(pureOut[1].selected[3].note.text, pureOut[1].selected[1].note.text)
          # textOverlap(pureOut[1].selected[3].note.text, pureOut[1].selected[2].note.text)

\* the 0-based positions, among the candidates, of the sentences of out, when
\* out is a selection of candidates in their original order
IsOrderedSelection(out, candidates, positions) ==
    /\ Cardinality(positions) = Len(out)
    /\ \A r \in 1..Len(out) :
           \E p \in positions :
               /\ Cardinality({q \in positions : q < p}) = r - 1
               /\ out[r] = candidates[p + 1]

\* the positions of the maxSentences best candidates: a higher score goes
\* first, and of two equal scores the earlier sentence
BestPositions(candidates, maxSentences) ==
    LET Better(p, q) ==
            \/ keySentenceScore(candidates[p + 1], p) > keySentenceScore(candidates[q + 1], q)
            \/ /\ keySentenceScore(candidates[p + 1], p) = keySentenceScore(candidates[q + 1], q)
               /\ p < q
    IN  {p \in 0..(Len(candidates) - 1) :
            Cardinality({q \in 0..(Len(candidates) - 1) : Better(q, p)}) < maxSentences}

\* C23 (SpecKey): extractKeySentences, as claimed.  At most maxSentences
\* sentences for every text: all candidates in original order when at most
\* maxSentences remain after dropping the fragments of 10 characters or
\* fewer, and otherwise the maxSentences highest-scored ones, equal scores
\* resolved in favour of the earlier sentence, in original order.
KeySentencesForEveryText ==
    pureOut # <<>> =>
        LET candidates == keyCandidates(pureIn.text)
            out == pureOut[1].out
        IN  /\ Len(out) <= pureIn.maxSentences
            /\ Len(candidates) <= pureIn.maxSentences => out = candidates
            /\ Len(candidates) > pureIn.maxSentences =>
                   IsOrderedSelection(out, candidates,
                                      BestPositions(candidates, pureIn.maxSentences))

\* C23 (SpecKey): extractKeySentences, amended.  When no fragment longer than
\* 10 characters remains, the trimmed text is returned as the only item.
\* Otherwise at most maxSentences sentences are returned: all candidates in
\* original order when there are at most maxSentences, and otherwise the
\* maxSentences highest-scored ones, equal scores resolved in favour of the
\* earlier sentence, in original order.
KeySentencesOrWholeText ==
    pureOut # <<>> =>
        LET candidates == keyCandidates(pureIn.text)
            out == pureOut[1].out
        IN  IF candidates = <<>> THEN out = <<trim(pureIn.text)>>
            ELSE /\ Len(out) <= pureIn.maxSentences
                 /\ Len(candidates) <= pureIn.maxSentences => out = candidates
                 /\ Len(candidates) > pureIn.maxSentences =>
                        IsOrderedSelection(out, candidates,
                                           BestPositions(candidates, pureIn.maxSentences))

\* C23 witness: of three candidates the first two are returned; the second
\* has the highest score, and the third, left out, has the score of the first
KeySentenceTieResolved ==
    /\ pureOut # <<>>
    /\ pureIn.maxSentences = 2
    /\ Len(keyCandidates(pureIn.text)) = 3
    /\ pureOut[1].out = SubSeq(keyCandidates(pureIn.text), 1, 2)
    /\ keySentenceScore(keyCandidates(pureIn.text)[2], 1)
          > keySentenceScore(keyCandidates(pureIn.text)[1], 0)
    /\ keySentenceScore(keyCandidates(pureIn.text)[3], 2)
          = keySentenceScore(keyCandidates(pureIn.text)[1], 0)

\* the offsets at which `part` occurs in `text`
Occurrences(text, part) ==
    {i \in 0..(Len(text) - Len(part)) : SubSeq(text, i + 1, i + Len(part)) = part}

\* High if score > 0.7, Medium if 0.5 < score <= 0.7, Low otherwise
TierOf(score) ==
    IF score > Tenths(7) THEN HighLabel
    ELSE IF Tenths(5) < score /\ score <= Tenths(7) THEN MediumLabel
    ELSE LowLabel

\* the header that opens block number `number` for a note of score `score`
BlockOpening(number, score) ==
    <<"[", "S", "o", "u", "r", "c", "e", " ">> \o decimal(number) \o <<" ", "-", " ">>
        \o TierOf(score) \o <<" ", "r", "e", "l", "e", "v", "a", "n", "c", "e", "]">>

\* C22 (SpecCtx): buildContext(results, k) returns an empty context and empty
\* supportingNotes when results is empty or k <= 0; otherwise supportingNotes
\* are the notes of topK(results, k) in that order, and the context holds one
\* block per supporting note and no other: block number i, counted from 1,
\* opens with the header of number i and of the label of the score of the
\* i-th note (High above 0.7, Medium above 0.5 up to 0.7, Low otherwise), the
\* headers standing in that order.
ContextHasOneBlockPerNote ==
    pureOut # <<>> =>
        LET out == pureOut[1].out
            top == topK(pureIn.results, pureIn.k)
            openings == Occurrences(out.context, <<"[", "S", "o", "u", "r", "c", "e", " ">>)
            At(i) == CHOOSE o \in openings : Cardinality({q \in openings : q < o}) = i - 1
        IN  IF pureIn.results = <<>> \/ pureIn.k <= 0
            THEN out.context = <<>> /\ out.supportingNotes = <<>>
            ELSE /\ out.supportingNotes = [i \in 1..Len(top) |-> top[i].note]
                 /\ Cardinality(openings) = Len(out.supportingNotes)
                 /\ 0 \in openings
                 /\ \A i \in 1..Len(top) :
                        LET header == BlockOpening(i, top[i].similarity)
                        IN  SubSeq(out.context, At(i) + 1, At(i) + Len(header)) = header

\* C22 witness: a context of three blocks, one of each label, the scores 0.7
\* and 0.5 among them
ContextOfThreeTiers ==
    /\ pureOut # <<>>
    /\ Len(pureOut[1].out.supportingNotes) = 3
    /\ \E i \in 1..Len(pureIn.results) : pureIn.results[i].similarity = Tenths(7)
    /\ \E i \in 1..Len(pureIn.results) : pureIn.results[i].similarity = Tenths(5)
    /\ \E i \in 1..Len(pureIn.results) : pureIn.results[i].similarity = Tenths(8)
    /\ Occurrences(pureOut[1].out.context, MediumLabel) # {}
    /\ Occurrences(pureOut[1].out.context, LowLabel) # {}
    /\ Occurrences(pureOut[1].out.context, HighLabel) # {}

\* the TF-IDF scores of the sentences of a text
SentenceScores(sentences) ==
    [k \in 1..Len(sentences) |-> computeSentenceScore(sentences[k], computeIDF(sentences))]

\* the positions of the n best scores: a higher score goes first, and of two
\* equal scores the earlier position
TopPositions(scores, n) ==
    LET Better(p, q) == scores[p] > scores[q] \/ (scores[p] = scores[q] /\ p < q)
    IN  {p \in 1..Len(scores) : Cardinality({q \in 1..Len(scores) : Better(q, p)}) < n}

\* the sentences at the given positions, in text order
SentencesAt(sentences, positions) ==
    LET kept == SelectSeq(Indices(sentences), LAMBDA p : p \in positions)
    IN  [k \in 1..Len(kept) |-> sentences[kept[k]]]

\* out is the given sentences joined by single spaces
IsJoinOf(out, sentences) ==
    IF sentences = <<>> THEN out = <<>>
    ELSE /\ Len(out) = JoinedStart(sentences, Len(sentences)) + Len(sentences[Len(sentences)])
         /\ \A k \in 1..Len(sentences) :
                SubSeq(out, JoinedStart(sentences, k) + 1,
                            JoinedStart(sentences, k) + Len(sentences[k])) = sentences[k]
         /\ \A k \in 2..Len(sentences) : out[JoinedStart(sentences, k)] = " "

\* C24 (SpecSum): when the text has more than numSentences sentences
\* (numSentences >= 0), summarize returns exactly numSentences of them: the
\* highest-scored ones, equal scores resolved in favour of the earlier
\* sentence, in original text order, joined by single spaces.
SummarizeSelectsBest ==
    (pureOut # <<>> /\ pureOut[1].op = "summarize") =>
        LET sentences == splitIntoSentences(pureIn.text)
            best == TopPositions(SentenceScores(sentences), pureIn.numSentences)
        IN  (pureIn.numSentences >= 0 /\ Len(sentences) > pureIn.numSentences) =>
                /\ Cardinality(best) = pureIn.numSentences
                /\ IsJoinOf(pureOut[1].out, SentencesAt(sentences, best))

\* C24 witness: fewer sentences selected than the text has; two different
\* sentences have the same score, the earlier is selected and the later is not
SummarizeTieResolved ==
    /\ pureOut # <<>>
    /\ pureOut[1].op = "summarize"
    /\ pureIn.numSentences >= 1
    /\ Len(splitIntoSentences(pureIn.text)) > pureIn.numSentences
    /\ \E p, q \in 1..Len(splitIntoSentences(pureIn.text)) :
          /\ p < q
          /\ SentenceScores(splitIntoSentences(pureIn.text))[p]
                = SentenceScores(splitIntoSentences(pureIn.text))[q]
          /\ splitIntoSentences(pureIn.text)[p] # splitIntoSentences(pureIn.text)[q]
          /\ p \in TopPositions(SentenceScores(splitIntoSentences(pureIn.text)),
                                 pureIn.numSentences)
          /\ q \notin TopPositions(SentenceScores(splitIntoSentences(pureIn.text)),
                                    pureIn.numSentences)

\* factors by which every score of a text is multiplied alike
UniformFactors == {1, 7, 10}

\* C25 (SpecSum): summarizeWithPositionBias(text, n) is summarize(text, n)
\* except for the score multiplier.  For every text with at most n sentences,
\* a text with no sentence longer than 5 characters included, both return the
\* same string; and with every score multiplied by the same factor the
\* sentences selected are those summarize selects.
PositionBiasIsSummarizeButForBonus ==
    (pureOut # <<>> /\ pureOut[1].op = "summarizeWithPositionBias") =>
        LET sentences == splitIntoSentences(pureIn.text)
        IN  /\ Len(sentences) <= pureIn.numSentences =>
                   pureOut[1].out = summarize(pureIn.text, pureIn.numSentences)
            /\ Len(sentences) > pureIn.numSentences =>
                   \A factor \in UniformFactors :
                       summarizeByBiasedScore(sentences, pureIn.numSentences,
                                              [k \in 1..Len(sentences) |-> factor])
                           = summarize(pureIn.text, pureIn.numSentences)

\* the place of a note in the list getAllNotes returned
StoragePosition(notes, note) == CHOOSE n \in 1..Len(notes) : notes[n] = note

\* C26 (SpecRetr): on a non-empty store whose vectors have the length of the
\* query vector, retrieveNotes returns exactly one scored item per note that
\* getAllNotes returned, none dropped and none twice, each scored with
\* cosineSimilarity(query vector, note vector), by non-increasing score, notes
\* of equal score in storage order (most recent first).
RetrieveNotesScoresEveryNote ==
    \A c \in AllCallers :
        (/\ calls[c].op = "retrieveNotes"
         /\ calls[c].notes # <<>>
         /\ calls[c].notes[1] # <<>>
         /\ \A n \in 1..Len(calls[c].notes[1]) :
                Len(calls[c].notes[1][n].embedding) = Len(calls[c].embedding[1]))
        => /\ calls[c].pc = "resolved"
           /\ LET notes == calls[c].notes[1]
                  out == calls[c].value[1]
              IN  /\ Len(out) = Len(notes)
                  /\ \A n \in 1..Len(notes) :
                        Cardinality({i \in 1..Len(out) : out[i].note = notes[n]}) = 1
                  /\ \A i \in 1..Len(out) :
                        out[i].similarity =
                            cosineSimilarity(calls[c].embedding[1],
                                             out[i].note.embedding).value
                  /\ \A i, j \in 1..Len(out) :
                        i < j =>
                            /\ out[i].similarity >= out[j].similarity
                            /\ out[i].similarity = out[j].similarity =>
                                   StoragePosition(notes, out[i].note)
                                       < StoragePosition(notes, out[j].note)

\* C26 witness: retrieveNotes returned two notes of the same non-zero score,
\* the more recent one first
RetrieveNotesTieInStorageOrder ==
    \E c \in AllCallers :
        /\ calls[c].op = "retrieveNotes"
        /\ calls[c].pc = "resolved"
        /\ Len(calls[c].value[1]) = 2
        /\ LET out == calls[c].value[1]
           IN  /\ out[1].similarity = out[2].similarity
               /\ out[1].similarity > 0
               /\ out[1].note.timestamp > out[2].note.timestamp

\* the inference of call c fails in this step
InferenceFails(c) ==
    /\ calls[c].pc = "awaitRun"
    /\ calls'[c].pc = "rejected"

\* C27 (SpecLoad): an inference failure does not touch the cache.  The step in
\* which model.run throws or yields no output tensor rejects the call, leaves
\* session and sessionLoading as they were and starts neither a load nor
\* another inference; the session the failed call ran on stays cached, and a
\* call begun while a session is cached takes that session and starts no load.
InferenceFailureKeepsCache ==
    /\ [][\A c \in AllCallers :
              InferenceFails(c) =>
                  /\ calls'[c].failure \in RunFailures
                  /\ session' = session
                  /\ sessionLoading' = sessionLoading
                  /\ loads' = loads
                  /\ \A d \in AllCallers \ {c} : calls'[d] = calls[d]]_vars
    /\ [](\A c \in AllCallers :
              calls[c].failure \in RunFailures =>
                  /\ calls[c].pc = "rejected"
                  /\ session # NULL
                  /\ session = calls[c].model)
    /\ [][\A c \in AllCallers :
              (calls[c].pc = "idle" /\ calls'[c].pc # "idle" /\ session # NULL) =>
                  /\ calls'[c].model = session
                  /\ calls'[c].awaiting = NULL
                  /\ loads' = loads
                  /\ session' = session
                  /\ sessionLoading' = sessionLoading]_vars

\* C27 witness: the inference of one call has failed, and another embedText
\* call has just taken the cached session, the one load that succeeded being
\* the only load there was
CallAfterInferenceFailure ==
    \E c, d \in AllCallers :
        /\ calls[c].failure \in RunFailures
        /\ calls[d].op = "embedText"
        /\ calls[d].pc = "awaitLoad"
        /\ calls[d].awaiting = NULL
        /\ calls[d].model = session
        /\ session = calls[c].model
        /\ Len(loads) = 1

\* C28 (SpecRetr): with a query that yields no keywords (no token longer than
\* 2 characters after lowercasing and stripping non-word characters),
\* retrieveNotesStrict returns the empty list whatever the store and minScore,
\* and retrieveNotesHybrid returns one item per note, scored with
\* keywordOverlap = 0.
NoKeywordsStrictEmptyHybridZero ==
    \A c \in AllCallers :
        (/\ extractKeywords(calls[c].query) = {}
         /\ calls[c].pc = "resolved")
        => /\ calls[c].op = "retrieveNotesStrict" => calls[c].value = << <<>> >>
           /\ calls[c].op = "retrieveNotesHybrid" =>
                  LET notes == calls[c].notes[1]
                      out == calls[c].value[1]
                  IN  /\ Len(out) = Len(notes)
                      /\ \A n \in 1..Len(notes) :
                            \E i \in 1..Len(out) : out[i].note = notes[n]
                      /\ \A i \in 1..Len(out) :
                            /\ keywordOverlapScore(extractKeywords(calls[c].query),
                                                   out[i].note.text) = 0
                            /\ out[i].similarity =
                                   hybridScore(calls[c].param,
                                               cosineSimilarity(calls[c].embedding[1],
                                                                out[i].note.embedding).value,
                                               0)

\* C28 witness: a strict retrieval with a query of no keywords returned the
\* empty list over a store holding a note whose hybrid score reaches minScore
StrictWithoutKeywordsOverNotes ==
    \E c \in AllCallers :
        /\ calls[c].op = "retrieveNotesStrict"
        /\ calls[c].pc = "resolved"
        /\ calls[c].query # <<>>
        /\ extractKeywords(calls[c].query) = {}
        /\ calls[c].param > 0
        /\ calls[c].value = << <<>> >>
        /\ \E h \in 1..Len(HybridHalf(calls[c]).value) :
              HybridHalf(calls[c]).value[h].similarity >= calls[c].param

\* C29 (SpecRank): for every k, k <= 0 included, topKWithThreshold(list, k,
\* minScore) returns at most max(k, 0) items, and returns what topK returns
\* for the items of list whose score is >= minScore.
ThresholdIsTopKOfFiltered ==
    (rankOut # <<>> /\ RankCall.op = "topKWithThreshold") =>
        LET MeetsThreshold(r) == r.similarity >= RankCall.minSimilarity
            kept == SelectSeq(RankCall.given, MeetsThreshold)
        IN  /\ Len(RankCall.out) <= (IF RankCall.k > 0 THEN RankCall.k ELSE 0)
            /\ RankCall.out = topK(kept, RankCall.k)

\* no timer is pending and no search is in flight
SearchQuiescent ==
    /\ debounceTimer = <<>>
    /\ \A c \in LoadCallers : calls[c].pc = "idle"

\* what performSearch shows for a query whose embedding pools to raw
ShownFor(text, raw) ==
    LET retrieved == retrieveNotesStrictFrom(trim(text), SearchMinSimilarity,
                                             l2Normalize(raw), store)
    IN  IF retrieved.ok THEN {matchedNotes(retrieved.value)} ELSE {}

\* C30 (SpecSearch): debounced search shows only the latest query's results.
\* Under any interleaving of query edits, timer firings and search
\* completions, a search that completes with results and leaves no timer
\* pending and no search in flight, the query not being empty, leaves in
\* searchResults a result of retrieveNotesStrict for the current query, never
\* that of an earlier query whose search completed later.
SearchShowsLatestQuery ==
    [][\A c \in LoadCallers :
          (/\ calls[c].pc = "resolved"
           /\ calls'[c].pc = "idle"
           /\ SearchQuiescent'
           /\ trim(queryText') # <<>>)
          => \E raw \in RawOutputs : searchResults' \in ShownFor(queryText', raw)]_vars

=============================================================================
